---- MODULE Spec2Model ----
(***************************************************************************)
(* The streaming core of the tutoring backend:                             *)
(*   backend/api/services/streaming.py                                     *)
(*     StreamGenerator.generate        (structured JSON-field streamer)    *)
(*     ChatStreamGenerator.generate    (conversational streamer)           *)
(*                                                                         *)
(* A text is a sequence of one-character strings.  A generator is modelled *)
(* by its suspension points: every action runs the coroutine from one      *)
(* suspension point (an await of the upstream, or a yield) to the next.    *)
(***************************************************************************)
EXTENDS Integers, Sequences, FiniteSets, TLC

VARIABLES
    response_schema,      \* StreamGenerator.response_schema: <<[name, type], ...>>
    upstream,             \* chunks the upstream response has still to deliver
    pc,                   \* suspension point of StreamGenerator.generate()
    cur,                  \* loop index of the field whose yield is suspended
    accumulated_text,     \* local accumulated_text
    field_positions,      \* local field_positions: string field -> cursor
    boolean_fields_sent,  \* local boolean_fields_sent: boolean field -> flag
    last_array_content,   \* local last_array_content
    events,               \* the event_data records yielded so far, in order
    sent_chunks,          \* history: the chunks the upstream has delivered
    raised,               \* history: <<str(e)>> once the upstream has raised e
    calls,                \* history: generate_content_stream calls of the session
    cancelled,            \* history: the consumer has closed the generator
    conversation_history, \* ChatStreamGenerator.conversation_history
    user_message,         \* ChatStreamGenerator.user_message
    chat_upstream,        \* chunks the chat response has still to deliver
    chat_pc,              \* suspension point of ChatStreamGenerator.generate()
    contents,             \* the contents passed to the upstream call
    chat_text,            \* local accumulated_text of the chat generator
    chat_events,          \* the event_data records it has yielded so far
    chat_chunks,          \* history: the chunks the chat upstream has delivered
    chat_raised,          \* history: <<str(e)>> once the chat upstream has raised e
    chat_calls,           \* history: generate_content_stream calls of the chat session
    chat_cancelled,       \* history: the consumer has closed the chat generator
    sessions,             \* the locals of the generate() calls that run side by side
    Analysis,             \* the rows of the model Analysis, in the order of creation
    Chat,                 \* the rows of the model Chat, in the order of creation
    GymSesh,              \* the rows of the model GymSesh, by id
    GymQuestions,         \* the rows of the model GymQuestions, by id
    session,              \* request.session: the keys the views have set
    session_key,          \* request.session.session_key of the browser session
    user,                 \* request.user of the browser session, None if anonymous
    streams_opened,       \* history: upstream streams opened for responses
    request,              \* the request the views handled last
    response,             \* the response to it
    handled,              \* the number of requests handled, also the clock
    AnalysisTranscript,   \* the rows of the model AnalysisTranscript, in the order of creation
    GymTranscript,        \* the rows of the model GymTranscript, in the order of creation
    model_calls,          \* history: calls of generate_content by ImageTranscriber
    wrap_pc,              \* suspension point of stream_with_db_save of ChatView.post
    accumulated_response, \* its local accumulated_response
    forwarded,            \* history: the chunks it has yielded to the server
    save_raised           \* history: Chat.objects.acreate has raised in it

streamVars == <<response_schema, upstream, pc, cur, accumulated_text, field_positions,
                boolean_fields_sent, last_array_content, events, sent_chunks,
                raised, calls, cancelled>>

chatVars == <<conversation_history, user_message, chat_upstream, chat_pc, contents,
              chat_text, chat_events, chat_chunks, chat_raised, chat_calls,
              chat_cancelled>>

transcriptVars == <<AnalysisTranscript, GymTranscript, model_calls>>

wrapperVars == <<wrap_pc, accumulated_response, forwarded, save_raised>>

viewVars == <<Analysis, Chat, GymSesh, GymQuestions, session, session_key, user,
              streams_opened, request, response, handled, transcriptVars,
              wrapperVars>>

vars == <<streamVars, chatVars, sessions, viewVars>>

\* What the steps of one generator leave alone.
outsideStream == <<chatVars, sessions, viewVars>>
outsideChat == <<streamVars, sessions, viewVars>>

\* No request: the state of the views in the specifications of the generators.
None == "<None>"

ViewIdle ==
    /\ Analysis = <<>>
    /\ Chat = <<>>
    /\ GymSesh = <<>>
    /\ GymQuestions = <<>>
    /\ session = <<>>
    /\ session_key = None
    /\ user = None
    /\ streams_opened = 0
    /\ request = <<>>
    /\ response = <<>>
    /\ handled = 0
    /\ AnalysisTranscript = <<>>
    /\ GymTranscript = <<>>
    /\ model_calls = 0
    /\ wrap_pc = "idle"
    /\ accumulated_response = <<>>
    /\ forwarded = <<>>
    /\ save_raised = FALSE

-----------------------------------------------------------------------------
(* Characters and texts *)

Quote == "\""
Backslash == "\\"
Newline == "\n"
Tab == "\t"

\* The character at index i, or "" past either end of the text.
CharAt(text, i) == IF i >= 1 /\ i <= Len(text) THEN text[i] ELSE ""

\* text[a-1 : b] of Python, with 1-based inclusive bounds.
Slice(text, a, b) == IF a > b THEN <<>> ELSE SubSeq(text, a, b)

StartsWithAt(text, i, pat) ==
    /\ i >= 1
    /\ i + Len(pat) - 1 <= Len(text)
    /\ Slice(text, i, i + Len(pat) - 1) = pat

RECURSIVE Concat(_)
Concat(texts) == IF texts = <<>> THEN <<>> ELSE Head(texts) \o Concat(Tail(texts))

SetMin(S) == CHOOSE i \in S : \A j \in S : i <= j

\* str.replace(pat, rep): leftmost non-overlapping occurrences.
RECURSIVE Replace(_, _, _)
Replace(text, pat, rep) ==
    IF text = <<>> THEN <<>>
    ELSE IF StartsWithAt(text, 1, pat)
         THEN rep \o Replace(Slice(text, Len(pat) + 1, Len(text)), pat, rep)
         ELSE <<Head(text)>> \o Replace(Tail(text), pat, rep)

-----------------------------------------------------------------------------
(* The regular expressions of StreamGenerator.generate, evaluated as       *)
(* Python's backtracking matcher evaluates them.                           *)

\* \s
IsSpace(c) == c \in {" ", Newline, Tab}

\* \s* from index i: the index of the first character it does not consume.
RECURSIVE SkipSpaces(_, _)
SkipSpaces(text, i) ==
    IF i <= Len(text) /\ IsSpace(text[i]) THEN SkipSpaces(text, i + 1) ELSE i

\* [^"]* (greedy) from index i: the index of the first character not consumed.
RECURSIVE NonQuoteEnd(_, _)
NonQuoteEnd(text, i) ==
    IF i <= Len(text) /\ text[i] # Quote THEN NonQuoteEnd(text, i + 1) ELSE i

\* (?:\\"[^"]*)* (greedy) from index i: an iteration needs a backslash and
\* a quote at i, then consumes a run of non-quote characters.
RECURSIVE EscapedTail(_, _)
EscapedTail(text, i) ==
    IF CharAt(text, i) = Backslash /\ CharAt(text, i + 1) = Quote
    THEN EscapedTail(text, NonQuoteEnd(text, i + 2))
    ELSE i

\* [^"]*(?:\\"[^"]*)* from index i, first (greedy) alternative.
CaptureEnd(text, i) == EscapedTail(text, NonQuoteEnd(text, i))

\* "name"\s*:\s* at index i: the index after the match, 0 when it fails.
KeyColonEnd(text, i, name) ==
    LET key == <<Quote>> \o name \o <<Quote>>
        j == SkipSpaces(text, i + Len(key))
    IN IF StartsWithAt(text, i, key) /\ CharAt(text, j) = ":"
       THEN SkipSpaces(text, j + 1)
       ELSE 0

\* re.search(rf'"{field_name}"\s*:\s*"([^"]*(?:\\"[^"]*)*)', text):
\* leftmost match; group is match.group(1).
StringSearch(text, name) ==
    LET hits == {i \in 1..Len(text) :
                    /\ KeyColonEnd(text, i, name) # 0
                    /\ CharAt(text, KeyColonEnd(text, i, name)) = Quote}
    IN IF hits = {} THEN [found |-> FALSE, group |-> <<>>]
       ELSE LET start == KeyColonEnd(text, SetMin(hits), name) + 1
            IN [found |-> TRUE,
                group |-> Slice(text, start, CaptureEnd(text, start) - 1)]

TrueLit == <<"t", "r", "u", "e">>
FalseLit == <<"f", "a", "l", "s", "e">>

\* Mutant: the pattern ends before the last letter of the literal,
\* (tru|fals).
BoolSearchPrefix(text, name) ==
    LET tru == <<"t", "r", "u">>
        fals == <<"f", "a", "l", "s">>
        hits == {i \in 1..Len(text) :
                    /\ KeyColonEnd(text, i, name) # 0
                    /\ \/ StartsWithAt(text, KeyColonEnd(text, i, name), tru)
                       \/ StartsWithAt(text, KeyColonEnd(text, i, name), fals)}
    IN IF hits = {} THEN [found |-> FALSE, group |-> <<>>]
       ELSE [found |-> TRUE,
             group |-> IF StartsWithAt(text, KeyColonEnd(text, SetMin(hits), name), tru)
                       THEN TrueLit ELSE FalseLit]

\* re.search(rf'"{field_name}"\s*:\s*(true|false)', text)
BoolSearch(text, name) ==
    LET hits == {i \in 1..Len(text) :
                    /\ KeyColonEnd(text, i, name) # 0
                    /\ \/ StartsWithAt(text, KeyColonEnd(text, i, name), TrueLit)
                       \/ StartsWithAt(text, KeyColonEnd(text, i, name), FalseLit)}
    IN IF hits = {} THEN [found |-> FALSE, group |-> <<>>]
       ELSE [found |-> TRUE,
             group |-> IF StartsWithAt(text, KeyColonEnd(text, SetMin(hits), name), TrueLit)
                       THEN TrueLit ELSE FalseLit]

\* (.*?)(?:\]|$) with re.DOTALL from index i: the lazy capture ends before
\* the first "]", or at the end of the text, or before a newline that ends
\* the text ($ without re.MULTILINE).
LazyBracketEnd(text, i) ==
    SetMin({p \in i..(Len(text) + 1) :
               \/ CharAt(text, p) = "]"
               \/ p = Len(text) + 1
               \/ p = Len(text) /\ text[p] = Newline})

\* re.search(rf'"{array_field_name}"\s*:\s*\[(.*?)(?:\]|$)', text, re.DOTALL)
ArraySearch(text, name) ==
    LET hits == {i \in 1..Len(text) :
                    /\ KeyColonEnd(text, i, name) # 0
                    /\ CharAt(text, KeyColonEnd(text, i, name)) = "["}
    IN IF hits = {} THEN [found |-> FALSE, group |-> <<>>]
       ELSE LET start == KeyColonEnd(text, SetMin(hits), name) + 1
            IN [found |-> TRUE,
                group |-> Slice(text, start, LazyBracketEnd(text, start) - 1)]

\* Mutant: an item whose closing quote has not arrived yet counts as an item.
RECURSIVE FindAllItemsOpen(_, _)
FindAllItemsOpen(text, i) ==
    IF i > Len(text) THEN <<>>
    ELSE IF text[i] # Quote THEN FindAllItemsOpen(text, i + 1)
    ELSE LET e == CaptureEnd(text, i + 1)
         IN <<Slice(text, i + 1, e - 1)>> \o FindAllItemsOpen(text, e + 1)

\* re.findall(r'"([^"]*(?:\\"[^"]*)*)"', text) scanning from index i.  At an
\* opening quote the greedy alternative ends at e; the closing quote must be
\* there.  When it is not, e is the end of the text and every shorter
\* alternative ends before a non-quote character, so the attempt fails.
RECURSIVE FindAllItems(_, _)
FindAllItems(text, i) ==
    IF i > Len(text) THEN <<>>
    ELSE IF text[i] # Quote THEN FindAllItems(text, i + 1)
    ELSE LET e == CaptureEnd(text, i + 1)
         IN IF CharAt(text, e) = Quote
            THEN <<Slice(text, i + 1, e - 1)>> \o FindAllItems(text, e + 1)
            ELSE FindAllItems(text, i + 1)

\* The three replace calls applied to a string field's capture.
UnescapeValue(v) ==
    Replace(Replace(Replace(v, <<Backslash, Quote>>, <<Quote>>),
                    <<Backslash, "n">>, <<Newline>>),
            <<Backslash, "t">>, <<Tab>>)

\* The two replace calls applied to an array item.
UnescapeItem(v) ==
    Replace(Replace(v, <<Backslash, Quote>>, <<Quote>>),
            <<Backslash, "n">>, <<Newline>>)

-----------------------------------------------------------------------------
(* JSON values carried by events, and json.loads.                          *)
(* A value is [kind, val]: a string (val a text), a boolean, null, an      *)
(* array (val a sequence of values) or an object (val a function from      *)
(* member names to values, as a dict: a repeated name keeps the last       *)
(* value).  The texts of the model carry no digit, no sign and no "\u"     *)
(* escape, so numbers and code-point escapes are not part of the grammar.  *)

JStr(t) == [kind |-> "str", val |-> t]
JBool(b) == [kind |-> "bool", val |-> b]
JNull == [kind |-> "null", val |-> <<>>]
JArray(items) == [kind |-> "array", val |-> items]
JObject(members) == [kind |-> "object", val |-> members]

ParseError == [ok |-> FALSE, val |-> JNull, end |-> 0]
Parsed(v, e) == [ok |-> TRUE, val |-> v, end |-> e]

\* json.decoder.WHITESPACE
RECURSIVE SkipJsonSpace(_, _)
SkipJsonSpace(s, i) ==
    IF i <= Len(s) /\ s[i] \in {" ", Tab, Newline, "\r"}
    THEN SkipJsonSpace(s, i + 1) ELSE i

\* json.decoder.BACKSLASH: the character an escape stands for, "" if none.
EscapeChar(c) ==
    CASE c = Quote -> Quote
      [] c = Backslash -> Backslash
      [] c = "/" -> "/"
      [] c = "b" -> "<BS>"
      [] c = "f" -> "\f"
      [] c = "n" -> Newline
      [] c = "r" -> "\r"
      [] c = "t" -> Tab
      [] OTHER -> ""

\* json.decoder.scanstring(s, i, strict=True), i the index after the
\* opening quote; acc is the text decoded so far.
RECURSIVE ScanString(_, _, _)
ScanString(s, i, acc) ==
    IF i > Len(s) THEN ParseError
    ELSE IF s[i] = Quote THEN Parsed(JStr(acc), i + 1)
    ELSE IF s[i] \in {Newline, Tab, "\r", "\f"} THEN ParseError
    ELSE IF s[i] = Backslash
         THEN IF EscapeChar(CharAt(s, i + 1)) = "" THEN ParseError
              ELSE ScanString(s, i + 2, Append(acc, EscapeChar(s[i + 1])))
    ELSE ScanString(s, i + 1, Append(acc, s[i]))

NullLit == <<"n", "u", "l", "l">>

RECURSIVE ScanOnce(_, _)
RECURSIVE ObjectMembers(_, _, _)
RECURSIVE ArrayItems(_, _, _)

\* json.decoder.JSONObject's loop, i the index after a member's opening quote.
ObjectMembers(s, i, acc) ==
    LET key == ScanString(s, i, <<>>)
        colon == IF key.ok THEN SkipJsonSpace(s, key.end) ELSE 0
        value == IF key.ok /\ CharAt(s, colon) = ":"
                 THEN ScanOnce(s, SkipJsonSpace(s, colon + 1))
                 ELSE ParseError
        sep == IF value.ok THEN SkipJsonSpace(s, value.end) ELSE 0
        members == IF value.ok THEN (key.val.val :> value.val) @@ acc ELSE acc
        next == SkipJsonSpace(s, sep + 1)
    IN IF ~value.ok THEN ParseError
       ELSE IF CharAt(s, sep) = "}" THEN Parsed(JObject(members), sep + 1)
       ELSE IF CharAt(s, sep) # "," THEN ParseError
       ELSE IF CharAt(s, next) # Quote THEN ParseError
       ELSE ObjectMembers(s, next + 1, members)

\* json.decoder.JSONArray's loop, i the index of an item's first character.
ArrayItems(s, i, acc) ==
    LET value == ScanOnce(s, i)
        sep == IF value.ok THEN SkipJsonSpace(s, value.end) ELSE 0
    IN IF ~value.ok THEN ParseError
       ELSE IF CharAt(s, sep) = "]"
            THEN Parsed(JArray(Append(acc, value.val)), sep + 1)
       ELSE IF CharAt(s, sep) # "," THEN ParseError
       ELSE ArrayItems(s, SkipJsonSpace(s, sep + 1), Append(acc, value.val))

\* json.scanner.py_make_scanner's _scan_once at index i.
ScanOnce(s, i) ==
    LET c == CharAt(s, i)
        first == SkipJsonSpace(s, i + 1)
    IN CASE c = Quote -> ScanString(s, i + 1, <<>>)
         [] c = "{" ->
              IF CharAt(s, first) = "}" THEN Parsed(JObject(<<>>), first + 1)
              ELSE IF CharAt(s, first) # Quote THEN ParseError
              ELSE ObjectMembers(s, first + 1, <<>>)
         [] c = "[" ->
              IF CharAt(s, first) = "]" THEN Parsed(JArray(<<>>), first + 1)
              ELSE ArrayItems(s, first, <<>>)
         [] c = "n" /\ StartsWithAt(s, i, NullLit) -> Parsed(JNull, i + 4)
         [] c = "t" /\ StartsWithAt(s, i, TrueLit) -> Parsed(JBool(TRUE), i + 4)
         [] c = "f" /\ StartsWithAt(s, i, FalseLit) -> Parsed(JBool(FALSE), i + 5)
         [] OTHER -> ParseError

\* json.loads(text): JSONDecoder.decode; ok is FALSE for JSONDecodeError.
JsonLoads(text) ==
    LET r == ScanOnce(text, SkipJsonSpace(text, 1))
    IN IF r.ok /\ SkipJsonSpace(text, r.end) = Len(text) + 1
       THEN [ok |-> TRUE, val |-> r.val]
       ELSE [ok |-> FALSE, val |-> JNull]

-----------------------------------------------------------------------------
(* Inputs: schemas and upstream responses *)

Field(name, type) == [name |-> name, type |-> type]

\* A schema with one field of each handled type.
ShortSchema ==
    <<Field(<<"t">>, "string"), Field(<<"g">>, "array"), Field(<<"b">>, "boolean")>>

\* Scenario A of the specification.
ScenarioSchema ==
    <<Field(<<"t", "i", "t", "l", "e">>, "string"),
      Field(<<"t", "a", "g", "s">>, "array"),
      Field(<<"i", "s", "_", "c", "o", "r", "r", "e", "c", "t">>, "boolean")>>

ScenarioChunks ==
    << <<"{", "\"", "t", "i", "t", "l", "e", "\"", ":", " ", "\"", "D", "e", "r">>,
       <<"i", "v", "a", "t", "i", "v", "e", "s", "\"", ",", " ", "\"", "t", "a", "g", "s", "\"", ":", " ", "[", "\"", "C", "a", "l", "c">>,
       <<"u", "l", "u", "s", "\"", ",", "\"", "C", "h", "a", "i", "n", "\"", "]", ",", " ", "\"", "i", "s", "_", "c", "o", "r", "r", "e", "c", "t", "\"", ":", " ", "t", "r", "u">>,
       <<"e", "}">> >>

\* a complete string field
DocString ==
    <<"{", "\"", "t", "\"", ":", "\"", "a", "b", "\"", "}">>
\* a string field with an escaped quote
DocEscapedQuote ==
    <<"{", "\"", "t", "\"", ":", "\"", "a", "\\", "\"", "b", "\"", "}">>
\* a string field with an escaped newline
DocEscapedNewline ==
    <<"{", "\"", "t", "\"", ":", "\"", "a", "\\", "n", "b", "\"", "}">>
\* a string field with an escaped backslash before n
DocEscapedBackslash ==
    <<"{", "\"", "t", "\"", ":", "\"", "a", "\\", "\\", "n", "\"", "}">>
\* white space around the colon
DocSpaced ==
    <<"{", "\"", "t", "\"", " ", ":", " ", "\"", "a", "\"", " ", "}">>
\* a stream that stops inside the string
DocTruncated ==
    <<"{", "\"", "t", "\"", ":", "\"", "a">>
\* an array of two items
DocArray ==
    <<"{", "\"", "g", "\"", ":", "[", "\"", "a", "\"", ",", "\"", "b", "\"", "]", "}">>
\* an item with an escaped quote
DocArrayEscaped ==
    <<"{", "\"", "g", "\"", ":", "[", "\"", "a", "\\", "\"", "b", "\"", "]", "}">>
\* an item that holds a closing bracket
DocArrayBracket ==
    <<"{", "\"", "g", "\"", ":", "[", "\"", "a", "]", "\"", "]", "}">>
\* an item with an escaped tab
DocArrayTab ==
    <<"{", "\"", "g", "\"", ":", "[", "\"", "\\", "t", "\"", "]", "}">>
\* items on two lines
DocArrayLines ==
    <<"{", "\"", "g", "\"", ":", "[", "\"", "a", "\"", ",", "\n", "\"", "b", "\"", "]", "}">>
\* an empty array
DocArrayEmpty ==
    <<"{", "\"", "g", "\"", ":", "[", "]", "}">>
\* a boolean field
DocBool ==
    <<"{", "\"", "b", "\"", ":", "t", "r", "u", "e", "}">>
\* a boolean field after a space
DocBoolSpaced ==
    <<"{", "\"", "b", "\"", ":", " ", "f", "a", "l", "s", "e", "}">>
\* the boolean member repeated
DocBoolTwice ==
    <<"{", "\"", "b", "\"", ":", "t", "r", "u", "e", ",", "\"", "b", "\"", ":", "f", "a", "l", "s", "e", "}">>
\* the boolean key in a nested object
DocBoolNested ==
    <<"{", "\"", "x", "\"", ":", "{", "\"", "b", "\"", ":", "t", "r", "u", "e", "}", "}">>
\* all three fields
DocAll ==
    <<"{", "\"", "t", "\"", ":", "\"", "x", "\"", ",", "\"", "b", "\"", ":", "t", "r", "u", "e", ",", "\"", "g", "\"", ":", "[", "\"", "y", "\"", "]", "}">>
\* no JSON document
DocNotJson ==
    <<"n", "o", "t", " ", "j", "s", "o", "n", "{">>
\* a JSON document that is a string
DocScalar ==
    <<"\"", "a", "b", "\"">>
\* a JSON document that is null
DocNull ==
    <<" ", "n", "u", "l", "l">>

Docs ==
    {DocString, DocEscapedQuote, DocEscapedNewline, DocEscapedBackslash, DocSpaced, DocTruncated, DocArray, DocArrayEscaped, DocArrayBracket, DocArrayTab, DocArrayLines, DocArrayEmpty, DocBool, DocBoolSpaced, DocBoolTwice, DocBoolNested, DocAll, DocNotJson, DocScalar, DocNull}

\* The longest upstream response in chunks, for the responses cut freely.
MaxChunks == 3

\* Every way to deliver text d in exactly k chunks, empty chunks included.
RECURSIVE Splits(_, _)
Splits(d, k) ==
    IF k = 1 THEN {<<d>>}
    ELSE UNION {{<<Slice(d, 1, n)>> \o rest :
                    rest \in Splits(Slice(d, n + 1, Len(d)), k - 1)} :
                n \in 0..Len(d)}

\* A schema that declares no field: its properties are empty.
EmptySchema == <<>>

\* The responses delivered under the schema without fields.
EmptySchemaDocs == {DocString, DocArray, DocBool, DocNotJson}

\* A schema that declares two array fields.
TwoArraySchema == <<Field(<<"g">>, "array"), Field(<<"h">>, "array")>>

\* Both arrays, the second field of the schema first in the document.
DocTwoArrays ==
    <<"{", "\"", "h", "\"", ":", "[", "\"", "b", "\"", "]", ",",
      "\"", "g", "\"", ":", "[", "\"", "a", "\"", "]", "}">>

Inputs ==
    {[schema |-> ScenarioSchema, chunks |-> ScenarioChunks]}
    \cup {[schema |-> TwoArraySchema, chunks |-> c] :
             c \in Splits(DocTwoArrays, MaxChunks)}
    \cup {[schema |-> ShortSchema, chunks |-> c] :
             c \in UNION {Splits(d, MaxChunks) : d \in Docs}}
    \cup {[schema |-> EmptySchema, chunks |-> c] :
             c \in UNION {Splits(d, MaxChunks) : d \in EmptySchemaDocs}}

\* str(e) of the exceptions the upstream raises.
UpstreamErrors == {<<"r", "e", "s", "e", "t">>, <<>>}

-----------------------------------------------------------------------------
(* StreamGenerator.generate *)

\* Mutant: the field names are fixed in the generator and not read from the
\* properties of the schema.
FieldNamesFixed(schema, type) ==
    LET sel == SelectSeq(<<[name |-> <<"t">>, type |-> "string"],
                           [name |-> <<"g">>, type |-> "array"],
                           [name |-> <<"b">>, type |-> "boolean"]>>,
                         LAMBDA f : f.type = type)
    IN [i \in 1..Len(sel) |-> sel[i].name]

\* The names of the schema's fields of one type, in schema order.
FieldNames(schema, type) ==
    LET sel == SelectSeq(schema, LAMBDA f : f.type = type)
    IN [i \in 1..Len(sel) |-> sel[i].name]

\* Mutant: the loop over the properties has no break, so the last array
\* field stays in array_field_name.
ArrayFieldNameLast(schema) ==
    LET names == FieldNames(schema, "array")
    IN IF names = <<>> THEN <<>> ELSE names[Len(names)]

\* array_field_name: the first array field, <<>> for None.
ArrayFieldName(schema) ==
    LET names == FieldNames(schema, "array")
    IN IF names = <<>> THEN <<>> ELSE names[1]

Range(seq) == {seq[i] : i \in 1..Len(seq)}

\* event_data
Event(type, field, content, is_complete) ==
    [type |-> type, field |-> field, content |-> content, is_complete |-> is_complete]

FieldAll == <<"a", "l", "l">>
FieldError == <<"e", "r", "r", "o", "r">>

\* current_value after the replace calls, <<>> when the pattern has no match.
CurrentValue(text, name) ==
    LET m == StringSearch(text, name)
    IN IF m.found THEN UnescapeValue(m.group) ELSE <<>>

\* Mutant: the whole current value is sent again, not the part after the cursor.
NewContentWhole(text, name, last_pos) == CurrentValue(text, name)

\* new_content = current_value[last_pos:]
NewContent(text, name, last_pos) ==
    LET current_value == CurrentValue(text, name)
    IN Slice(current_value, last_pos + 1, Len(current_value))

\* unescaped_items of the array field's capture.
UnescapedItems(array_content) ==
    LET items == FindAllItems(array_content, 1)
    IN [i \in 1..Len(items) |-> JStr(UnescapeItem(items[i]))]

\* Whether the array block yields: the pattern matches, the capture differs
\* from last_array_content and holds at least one item.
ArrayDue(text, name, last) ==
    /\ name # <<>>
    /\ ArraySearch(text, name).found
    /\ ArraySearch(text, name).group # last
    /\ FindAllItems(ArraySearch(text, name).group, 1) # <<>>

\* Runs the body of the chunk loop from a position (the string loop at index
\* k, the boolean loop at index k, or the array block) to the next yield, or
\* to the await of the next chunk when nothing more is yielded.
NextYield(schema, text, phase, k, positions, sent, last) ==
    LET sf == FieldNames(schema, "string")
        bf == FieldNames(schema, "boolean")
        af == ArrayFieldName(schema)
        strHits == IF phase = "string"
                   THEN {i \in k..Len(sf) : NewContent(text, sf[i], positions[sf[i]]) # <<>>}
                   ELSE {}
        boolFrom == IF phase = "boolean" THEN k ELSE 1
        boolHits == IF phase \in {"string", "boolean"}
                    THEN {i \in boolFrom..Len(bf) :
                             ~sent[bf[i]] /\ BoolSearch(text, bf[i]).found}
                    ELSE {}
    IN IF strHits # {}
       THEN LET i == SetMin(strHits)
            IN [pc |-> "yield_partial", cur |-> i,
                emit |-> <<Event("partial", sf[i],
                                 JStr(NewContent(text, sf[i], positions[sf[i]])), FALSE)>>]
       ELSE IF boolHits # {}
       THEN LET i == SetMin(boolHits)
            IN [pc |-> "yield_boolean", cur |-> i,
                emit |-> <<Event("boolean", bf[i],
                                 JBool(BoolSearch(text, bf[i]).group = TrueLit), FALSE)>>]
       ELSE IF ArrayDue(text, af, last)
       THEN [pc |-> "yield_array", cur |-> 0,
             emit |-> <<Event("array", af,
                              JArray(UnescapedItems(ArraySearch(text, af).group)), FALSE)>>]
       ELSE [pc |-> "await", cur |-> 0, emit |-> <<>>]

\* Mutant: the document is parsed without the inner except clause, so a
\* parse failure reaches the outer handler.
CompletionDataNoFallback(text) ==
    IF JsonLoads(text).ok
    THEN [type |-> "complete", field |-> <<"a", "l", "l">>,
          content |-> JsonLoads(text).val, is_complete |-> TRUE]
    ELSE [type |-> "error", field |-> <<"e", "r", "r", "o", "r">>,
          content |-> JStr(<<"E", "x", "p", "e", "c", "t", "i", "n", "g">>),
          is_complete |-> TRUE]

\* The completion event: the parsed document, or the accumulated text.
CompletionData(text) ==
    Event("complete", FieldAll,
          IF JsonLoads(text).ok THEN JsonLoads(text).val ELSE JStr(text), TRUE)

\* Mutant: the error event does not carry str(e).
ErrorDataNoMessage(message) ==
    [type |-> "error", field |-> <<"e", "r", "r", "o", "r">>,
     content |-> JStr(<<>>), is_complete |-> TRUE]

ErrorData(message) == Event("error", FieldError, JStr(message), TRUE)

StreamInit ==
    /\ \E input \in Inputs :
          /\ response_schema = input.schema
          /\ upstream = input.chunks
    /\ pc = "start"
    /\ cur = 0
    /\ accumulated_text = <<>>
    /\ field_positions = <<>>
    /\ boolean_fields_sent = <<>>
    /\ last_array_content = <<>>
    /\ events = <<>>
    /\ sent_chunks = <<>>
    /\ raised = <<>>
    /\ calls = 0
    /\ cancelled = FALSE

\* Mutant: a failed upstream call is issued a second time, which succeeds.
GenerateRetries ==
    /\ pc = "start"
    /\ accumulated_text' = <<>>
    /\ field_positions' = [n \in Range(FieldNames(response_schema, "string")) |-> 0]
    /\ boolean_fields_sent' =
           [n \in Range(FieldNames(response_schema, "boolean")) |-> FALSE]
    /\ last_array_content' = <<>>
    /\ \/ calls' = calls + 1 /\ raised' = raised
       \/ \E message \in UpstreamErrors : calls' = calls + 2 /\ raised' = <<message>>
    /\ pc' = "await"
    /\ UNCHANGED <<outsideStream, cancelled, response_schema, upstream, cur, events,
                   sent_chunks>>

\* The first resumption: the setup of the locals and the upstream call.
Generate ==
    /\ pc = "start"
    /\ accumulated_text' = <<>>
    /\ field_positions' = [n \in Range(FieldNames(response_schema, "string")) |-> 0]
    /\ boolean_fields_sent' =
           [n \in Range(FieldNames(response_schema, "boolean")) |-> FALSE]
    /\ last_array_content' = <<>>
    /\ \/ pc' = "await" /\ events' = events /\ raised' = raised
       \/ \E message \in UpstreamErrors :
             /\ pc' = "yield_error"
             /\ events' = Append(events, ErrorData(message))
             /\ raised' = <<message>>
    /\ calls' = calls + 1
    /\ UNCHANGED <<outsideStream, cancelled, response_schema, upstream, cur, sent_chunks>>

\* The upstream delivers a chunk: the loop body runs to its first yield.
NextChunk ==
    /\ pc = "await"
    /\ upstream # <<>>
    /\ LET chunk == Head(upstream)
           text == accumulated_text \o chunk
           y == NextYield(response_schema, text, "string", 1, field_positions,
                          boolean_fields_sent, last_array_content)
       IN /\ upstream' = Tail(upstream)
          /\ sent_chunks' = Append(sent_chunks, chunk)
          /\ IF chunk # <<>>
             THEN /\ accumulated_text' = text
                  /\ pc' = y.pc
                  /\ cur' = y.cur
                  /\ events' = events \o y.emit
             ELSE UNCHANGED <<accumulated_text, pc, cur, events>>
    /\ UNCHANGED <<outsideStream, cancelled, calls, raised, response_schema, field_positions, boolean_fields_sent,
                   last_array_content>>

\* The consumer asks for the next event after a partial event: the cursor
\* is set and the loops go on.
ResumePartial ==
    /\ pc = "yield_partial"
    /\ LET name == FieldNames(response_schema, "string")[cur]
           positions == [field_positions EXCEPT
                            ![name] = Len(CurrentValue(accumulated_text, name))]
           y == NextYield(response_schema, accumulated_text, "string", cur + 1,
                          positions, boolean_fields_sent, last_array_content)
       IN /\ field_positions' = positions
          /\ pc' = y.pc
          /\ cur' = y.cur
          /\ events' = events \o y.emit
    /\ UNCHANGED <<outsideStream, cancelled, calls, raised, response_schema, upstream, accumulated_text, boolean_fields_sent,
                   last_array_content, sent_chunks>>

ResumeBoolean ==
    /\ pc = "yield_boolean"
    /\ LET name == FieldNames(response_schema, "boolean")[cur]
           sent == [boolean_fields_sent EXCEPT ![name] = TRUE]
           y == NextYield(response_schema, accumulated_text, "boolean", cur + 1,
                          field_positions, sent, last_array_content)
       IN /\ boolean_fields_sent' = sent
          /\ pc' = y.pc
          /\ cur' = y.cur
          /\ events' = events \o y.emit
    /\ UNCHANGED <<outsideStream, cancelled, calls, raised, response_schema, upstream, accumulated_text, field_positions,
                   last_array_content, sent_chunks>>

ResumeArray ==
    /\ pc = "yield_array"
    /\ last_array_content' =
           ArraySearch(accumulated_text, ArrayFieldName(response_schema)).group
    /\ pc' = "await"
    /\ cur' = 0
    /\ UNCHANGED <<outsideStream, cancelled, calls, raised, response_schema, upstream, accumulated_text, field_positions,
                   boolean_fields_sent, events, sent_chunks>>

\* Mutant: the completion event is yielded inside the chunk loop, which
\* goes on awaiting the upstream.
StreamEndInsideLoop ==
    /\ pc = "await"
    /\ upstream = <<>>
    /\ Len(events) < 8
    /\ events' = Append(events,
           [type |-> "complete", field |-> <<"a", "l", "l">>,
            content |-> JStr(accumulated_text), is_complete |-> TRUE])
    /\ pc' = "await"
    /\ UNCHANGED <<outsideStream, cancelled, calls, raised, response_schema, upstream, cur,
                   accumulated_text, field_positions, boolean_fields_sent,
                   last_array_content, sent_chunks>>

\* The upstream iteration ends: the completion event.
StreamEnd ==
    /\ pc = "await"
    /\ upstream = <<>>
    /\ events' = Append(events, CompletionData(accumulated_text))
    /\ pc' = "yield_complete"
    /\ UNCHANGED <<outsideStream, cancelled, calls, raised, response_schema, upstream, cur, accumulated_text, field_positions,
                   boolean_fields_sent, last_array_content, sent_chunks>>

\* The upstream iteration raises instead of delivering a chunk.
IterationRaises ==
    /\ pc = "await"
    /\ \E message \in UpstreamErrors :
          /\ events' = Append(events, ErrorData(message))
          /\ raised' = <<message>>
    /\ pc' = "yield_error"
    /\ UNCHANGED <<outsideStream, cancelled, calls, response_schema, upstream, cur, accumulated_text, field_positions,
                   boolean_fields_sent, last_array_content, sent_chunks>>

\* The consumer asks for the event after the terminal one: the generator returns.
Finish ==
    /\ pc \in {"yield_complete", "yield_error"}
    /\ pc' = "done"
    /\ UNCHANGED <<outsideStream, cancelled, calls, raised, response_schema, upstream, cur, accumulated_text, field_positions,
                   boolean_fields_sent, last_array_content, events, sent_chunks>>

\* No streaming session: the state of the other specifications.
StreamIdle ==
    /\ response_schema = <<>>
    /\ upstream = <<>>
    /\ pc = "idle"
    /\ cur = 0
    /\ accumulated_text = <<>>
    /\ field_positions = <<>>
    /\ boolean_fields_sent = <<>>
    /\ last_array_content = <<>>
    /\ events = <<>>
    /\ sent_chunks = <<>>
    /\ raised = <<>>
    /\ calls = 0
    /\ cancelled = FALSE

ChatIdle ==
    /\ conversation_history = <<>>
    /\ user_message = <<>>
    /\ chat_upstream = <<>>
    /\ chat_pc = "idle"
    /\ contents = <<>>
    /\ chat_text = <<>>
    /\ chat_events = <<>>
    /\ chat_chunks = <<>>
    /\ chat_raised = <<>>
    /\ chat_calls = 0
    /\ chat_cancelled = FALSE

Init == StreamInit /\ ChatIdle /\ sessions = <<>> /\ ViewIdle

Next ==
    \/ Generate
    \/ NextChunk
    \/ ResumePartial
    \/ ResumeBoolean
    \/ ResumeArray
    \/ StreamEnd
    \/ IterationRaises
    \/ Finish

Spec == Init /\ [][Next]_vars

-----------------------------------------------------------------------------
(* ChatStreamGenerator *)

\* dict.get(key, default): a message is a record of the keys it has.
Get(message, key, default) ==
    IF key \in DOMAIN message THEN message[key] ELSE default

RoleUser == "user"
RoleModel == "model"

Turn(role, text) == [role |-> role, parts |-> <<[text |-> text]>>]

\* ChatStreamGenerator._build_conversation_contents
RECURSIVE HistoryContents(_)
HistoryContents(history) ==
    IF history = <<>> THEN <<>>
    ELSE LET message == Head(history)
             role == Get(message, "role", RoleUser)
             content == Get(message, "content", <<>>)
         IN (IF role = RoleUser THEN <<Turn(RoleUser, content)>>
             ELSE IF role = "assistant" \/ role = "model"
                  THEN <<Turn(RoleModel, content)>>
             ELSE <<>>)
            \o HistoryContents(Tail(history))

\* Mutant: the current message is put before the history.
BuildConversationContentsFirst(history, message) ==
    <<Turn(RoleUser, message)>> \o HistoryContents(history)

BuildConversationContents(history, message) ==
    Append(HistoryContents(history), Turn(RoleUser, message))

\* event_data of the chat generator: no field key.
ChatEvent(type, content, is_complete) ==
    [type |-> type, content |-> content, is_complete |-> is_complete]

\* Inputs of the chat generator
Hi == <<"h", "i">>
Hello == <<"h", "e", "l", "l", "o">>
Bye == <<"b", "y", "e">>

HistoryRoles == {"user", "assistant", "model", "system"}

\* Entries with a role and a content, and entries that lack one of the keys.
HistoryEntries ==
    [role : HistoryRoles, content : {Hi, Hello}]
    \cup {[content |-> Hi], [role |-> "user"]}

\* The longest conversation history.
MaxHistory == 2

Histories == UNION {[1..n -> HistoryEntries] : n \in 0..MaxHistory}

\* The chunk texts of the chat upstream: chunk.text may be empty.
ChatChunkTexts == {<<>>, <<"a">>, <<"b">>}

\* The longest chat response, in chunks.
MaxChatChunks == 3

ChatStreams == UNION {[1..n -> ChatChunkTexts] : n \in 0..MaxChatChunks}

ChatInit ==
    /\ conversation_history \in Histories
    /\ user_message = Bye
    /\ chat_upstream \in ChatStreams
    /\ chat_pc = "start"
    /\ contents = <<>>
    /\ chat_text = <<>>
    /\ chat_events = <<>>
    /\ chat_chunks = <<>>
    /\ chat_raised = <<>>
    /\ chat_calls = 0
    /\ chat_cancelled = FALSE

\* The first resumption: the contents are built and the upstream is called.
ChatGenerate ==
    /\ chat_pc = "start"
    /\ chat_text' = <<>>
    /\ contents' = BuildConversationContents(conversation_history, user_message)
    /\ chat_calls' = chat_calls + 1
    /\ \/ chat_pc' = "await" /\ chat_events' = chat_events /\ chat_raised' = chat_raised
       \/ \E message \in UpstreamErrors :
             /\ chat_pc' = "yield_error"
             /\ chat_events' = Append(chat_events, ChatEvent("error", JStr(message), TRUE))
             /\ chat_raised' = <<message>>
    /\ UNCHANGED <<outsideChat, chat_cancelled, conversation_history, user_message, chat_upstream,
                   chat_chunks>>

\* Mutant: the text event carries the accumulated text, not the chunk's.
ChatNextChunkAccumulated ==
    /\ chat_pc = "await"
    /\ chat_upstream # <<>>
    /\ LET chunk == Head(chat_upstream)
       IN /\ chat_upstream' = Tail(chat_upstream)
          /\ chat_chunks' = Append(chat_chunks, chunk)
          /\ IF chunk # <<>>
             THEN /\ chat_text' = chat_text \o chunk
                  /\ chat_events' = Append(chat_events,
                         [type |-> "text", content |-> JStr(chat_text \o chunk),
                          is_complete |-> FALSE])
                  /\ chat_pc' = "yield_text"
             ELSE UNCHANGED <<chat_text, chat_events, chat_pc>>
    /\ UNCHANGED <<outsideChat, chat_cancelled, chat_calls, chat_raised, conversation_history, user_message, contents>>

\* The upstream delivers a chunk: a text event when chunk.text is not empty.
ChatNextChunk ==
    /\ chat_pc = "await"
    /\ chat_upstream # <<>>
    /\ LET chunk == Head(chat_upstream)
       IN /\ chat_upstream' = Tail(chat_upstream)
          /\ chat_chunks' = Append(chat_chunks, chunk)
          /\ IF chunk # <<>>
             THEN /\ chat_text' = chat_text \o chunk
                  /\ chat_events' = Append(chat_events, ChatEvent("text", JStr(chunk), FALSE))
                  /\ chat_pc' = "yield_text"
             ELSE UNCHANGED <<chat_text, chat_events, chat_pc>>
    /\ UNCHANGED <<outsideChat, chat_cancelled, chat_calls, chat_raised, conversation_history, user_message, contents>>

ChatResume ==
    /\ chat_pc = "yield_text"
    /\ chat_pc' = "await"
    /\ UNCHANGED <<outsideChat, chat_cancelled, chat_calls, chat_raised, conversation_history, user_message, chat_upstream,
                   contents, chat_text, chat_events, chat_chunks>>

ChatStreamEnd ==
    /\ chat_pc = "await"
    /\ chat_upstream = <<>>
    /\ chat_events' = Append(chat_events, ChatEvent("complete", JStr(chat_text), TRUE))
    /\ chat_pc' = "yield_complete"
    /\ UNCHANGED <<outsideChat, chat_cancelled, chat_calls, chat_raised, conversation_history, user_message, chat_upstream,
                   contents, chat_text, chat_chunks>>

ChatIterationRaises ==
    /\ chat_pc = "await"
    /\ \E message \in UpstreamErrors :
          /\ chat_events' = Append(chat_events, ChatEvent("error", JStr(message), TRUE))
          /\ chat_raised' = <<message>>
    /\ chat_pc' = "yield_error"
    /\ UNCHANGED <<outsideChat, chat_cancelled, chat_calls, conversation_history, user_message, chat_upstream,
                   contents, chat_text, chat_chunks>>

ChatFinish ==
    /\ chat_pc \in {"yield_complete", "yield_error"}
    /\ chat_pc' = "done"
    /\ UNCHANGED <<outsideChat, chat_cancelled, chat_calls, chat_raised, conversation_history, user_message, chat_upstream,
                   contents, chat_text, chat_events, chat_chunks>>

ChatNext ==
    \/ ChatGenerate
    \/ ChatNextChunk
    \/ ChatResume
    \/ ChatStreamEnd
    \/ ChatIterationRaises
    \/ ChatFinish

ChatSpecInit == ChatInit /\ StreamIdle /\ sessions = <<>> /\ ViewIdle

ChatSpec == ChatSpecInit /\ [][ChatNext]_vars

-----------------------------------------------------------------------------
(* The bytes yielded for an event: f"data: {json.dumps(event_data)}\n\n" *)

\* json.encoder.ESCAPE_DCT: the escape of a character inside a string.
EscapeOf(c) ==
    CASE c = Quote -> <<Backslash, Quote>>
      [] c = Backslash -> <<Backslash, Backslash>>
      [] c = Newline -> <<Backslash, "n">>
      [] c = Tab -> <<Backslash, "t">>
      [] c = "\r" -> <<Backslash, "r">>
      [] c = "\f" -> <<Backslash, "f">>
      [] c = "<BS>" -> <<Backslash, "b">>
      [] OTHER -> <<c>>

\* json.encoder.py_encode_basestring_ascii
EncodeString(t) ==
    <<Quote>> \o Concat([i \in 1..Len(t) |-> EscapeOf(t[i])]) \o <<Quote>>

\* separator.join(texts)
RECURSIVE Join(_, _)
Join(texts, separator) ==
    IF texts = <<>> THEN <<>>
    ELSE IF Len(texts) = 1 THEN texts[1]
    ELSE texts[1] \o separator \o Join(Tail(texts), separator)

\* The members of a parsed object as a sequence of <<name, value>>.  An
\* object of the model is a function and does not keep the order in which a
\* dict received its keys: the members are written in an arbitrary fixed order.
RECURSIVE MemberSeq(_, _)
MemberSeq(members, names) ==
    IF names = {} THEN <<>>
    ELSE LET n == CHOOSE x \in names : TRUE
         IN <<<<n, members[n]>>>> \o MemberSeq(members, names \ {n})

\* json.dumps(value) with the default separators and ensure_ascii.
RECURSIVE JsonDumps(_)
RECURSIVE DumpMembers(_)
DumpMembers(members) ==
    <<"{">>
    \o Join([i \in 1..Len(members) |->
                EncodeString(members[i][1]) \o <<":", " ">> \o JsonDumps(members[i][2])],
            <<",", " ">>)
    \o <<"}">>

JsonDumps(v) ==
    CASE v.kind = "str" -> EncodeString(v.val)
      [] v.kind = "bool" -> IF v.val THEN TrueLit ELSE FalseLit
      [] v.kind = "null" -> NullLit
      [] v.kind = "array" ->
           <<"[">> \o Join([i \in 1..Len(v.val) |-> JsonDumps(v.val[i])], <<",", " ">>)
                  \o <<"]">>
      [] v.kind = "object" -> DumpMembers(MemberSeq(v.val, DOMAIN v.val))

\* The keys of event_data and the texts of its type.
TypeKey == <<"t", "y", "p", "e">>
FieldKey == <<"f", "i", "e", "l", "d">>
ContentKey == <<"c", "o", "n", "t", "e", "n", "t">>
IsCompleteKey == <<"i", "s", "_", "c", "o", "m", "p", "l", "e", "t", "e">>

TypeText(type) ==
    CASE type = "partial" -> <<"p", "a", "r", "t", "i", "a", "l">>
      [] type = "array" -> <<"a", "r", "r", "a", "y">>
      [] type = "boolean" -> <<"b", "o", "o", "l", "e", "a", "n">>
      [] type = "complete" -> <<"c", "o", "m", "p", "l", "e", "t", "e">>
      [] type = "error" -> <<"e", "r", "r", "o", "r">>
      [] type = "text" -> <<"t", "e", "x", "t">>

\* event_data as the dict literal builds it, in the order of its keys.
EventMembers(e) ==
    <<<<TypeKey, JStr(TypeText(e.type))>>>>
    \o (IF "field" \in DOMAIN e THEN <<<<FieldKey, JStr(e.field)>>>> ELSE <<>>)
    \o <<<<ContentKey, e.content>>, <<IsCompleteKey, JBool(e.is_complete)>>>>

DataPrefix == <<"d", "a", "t", "a", ":", " ">>

\* Mutant: the record ends with one newline, without the blank line.
FrameOneNewline(e) ==
    <<"d", "a", "t", "a", ":", " ">> \o DumpMembers(EventMembers(e)) \o <<Newline>>

\* The yielded bytes of an event.  json.dumps writes ASCII only, so the
\* UTF-8 encoding has one byte per character, written here as the character.
Frame(e) == DataPrefix \o DumpMembers(EventMembers(e)) \o <<Newline, Newline>>

-----------------------------------------------------------------------------
(* A session of either generator, which its consumer may close *)

\* Mutant: the exception thrown into the suspended generator is caught by
\* the handler of generate(), which yields the error event.
CancelCaught ==
    /\ pc \in {"await", "yield_partial", "yield_boolean", "yield_array"}
    /\ cancelled' = TRUE
    /\ events' = Append(events, ErrorData(<<>>))
    /\ pc' = "yield_error"
    /\ UNCHANGED <<outsideStream, calls, raised, response_schema, upstream, cur,
                   accumulated_text, field_positions, boolean_fields_sent,
                   last_array_content, sent_chunks>>

\* The consumer closes the generator (aclose(), or the cancellation of the
\* task that iterates it): GeneratorExit or CancelledError is thrown at the
\* suspension point.  Both derive from BaseException, so "except Exception"
\* does not catch them and the generator ends there.
Cancel ==
    /\ pc \in {"start", "await", "yield_partial", "yield_boolean", "yield_array",
               "yield_complete", "yield_error"}
    /\ cancelled' = TRUE
    /\ pc' = "closed"
    /\ UNCHANGED <<outsideStream, calls, raised, response_schema, upstream, cur,
                   accumulated_text, field_positions, boolean_fields_sent,
                   last_array_content, events, sent_chunks>>

ChatCancel ==
    /\ chat_pc \in {"start", "await", "yield_text", "yield_complete", "yield_error"}
    /\ chat_cancelled' = TRUE
    /\ chat_pc' = "closed"
    /\ UNCHANGED <<outsideChat, chat_calls, chat_raised, conversation_history,
                   user_message, chat_upstream, contents, chat_text, chat_events,
                   chat_chunks>>

\* The responses and histories of the sessions that may be closed.
SessionDocs == {DocEscapedNewline, DocArrayEscaped, DocBool, DocNotJson}

SessionInit ==
    /\ sessions = <<>>
    /\ ViewIdle
    /\ \/ /\ StreamInit
          /\ ChatIdle
          /\ response_schema = ShortSchema
          /\ Concat(upstream) \in SessionDocs
       \/ /\ ChatInit
          /\ StreamIdle
          /\ conversation_history = <<>>

SessionNext ==
    \/ Next
    \/ Cancel
    \/ ChatNext
    \/ ChatCancel

SessionSpec == SessionInit /\ [][SessionNext]_vars

-----------------------------------------------------------------------------
(* Two generate() calls on one StreamGenerator object, run side by side *)

\* The locals of one call of generate(), before its first resumption.  The
\* call reads response_schema (with client, system_prompt and prompt_parts)
\* from the object and keeps everything else in its own frame.  upstream is
\* the response the call will receive; fails tells that its iteration raises
\* after the last chunk.
NewSession(input) ==
    [input |-> input, upstream |-> input.chunks, pc |-> "start", cur |-> 0,
     accumulated_text |-> <<>>, field_positions |-> <<>>,
     boolean_fields_sent |-> <<>>, last_array_content |-> <<>>, events |-> <<>>]

\* The yield reached from a position of the chunk loop, as a session.
Yielded(s, y) == [s EXCEPT !.pc = y.pc, !.cur = y.cur, !.events = @ \o y.emit]

\* One resumption of a call: from its suspension point to the next one.
Resume(schema, s) ==
    CASE s.pc = "start" ->
           [s EXCEPT !.pc = "await",
                     !.accumulated_text = <<>>,
                     !.field_positions =
                         [n \in Range(FieldNames(schema, "string")) |-> 0],
                     !.boolean_fields_sent =
                         [n \in Range(FieldNames(schema, "boolean")) |-> FALSE],
                     !.last_array_content = <<>>]
      [] s.pc = "await" /\ s.upstream # <<>> ->
           LET chunk == Head(s.upstream)
               text == s.accumulated_text \o chunk
               t == [s EXCEPT !.upstream = Tail(@)]
           IN IF chunk = <<>> THEN t
              ELSE Yielded([t EXCEPT !.accumulated_text = text],
                           NextYield(schema, text, "string", 1, s.field_positions,
                                     s.boolean_fields_sent, s.last_array_content))
      [] s.pc = "await" /\ s.upstream = <<>> /\ s.input.fails ->
           [s EXCEPT !.pc = "yield_error",
                     !.events = Append(@, ErrorData(<<"r", "e", "s", "e", "t">>))]
      [] s.pc = "await" /\ s.upstream = <<>> /\ ~s.input.fails ->
           [s EXCEPT !.pc = "yield_complete",
                     !.events = Append(@, CompletionData(s.accumulated_text))]
      [] s.pc = "yield_partial" ->
           LET name == FieldNames(schema, "string")[s.cur]
               positions == [s.field_positions EXCEPT
                                ![name] = Len(CurrentValue(s.accumulated_text, name))]
           IN Yielded([s EXCEPT !.field_positions = positions],
                      NextYield(schema, s.accumulated_text, "string", s.cur + 1,
                                positions, s.boolean_fields_sent, s.last_array_content))
      [] s.pc = "yield_boolean" ->
           LET name == FieldNames(schema, "boolean")[s.cur]
               sent == [s.boolean_fields_sent EXCEPT ![name] = TRUE]
           IN Yielded([s EXCEPT !.boolean_fields_sent = sent],
                      NextYield(schema, s.accumulated_text, "boolean", s.cur + 1,
                                s.field_positions, sent, s.last_array_content))
      [] s.pc = "yield_array" ->
           [s EXCEPT !.pc = "await", !.cur = 0,
                     !.last_array_content =
                         ArraySearch(s.accumulated_text, ArrayFieldName(schema)).group]
      [] s.pc \in {"yield_complete", "yield_error"} -> [s EXCEPT !.pc = "done"]

\* The responses of the calls that run side by side.
PairChunks ==
    {<<DocAll>>,
     <<Slice(DocAll, 1, 7), Slice(DocAll, 8, Len(DocAll))>>,
     <<Slice(DocAll, 1, 15), <<>>, Slice(DocAll, 16, Len(DocAll))>>,
     <<Slice(DocArray, 1, 9), Slice(DocArray, 10, Len(DocArray))>>,
     <<DocNotJson>>}

PairInputs == [chunks : PairChunks, fails : BOOLEAN]

\* The calls run side by side.
CallIds == {1, 2}

PairInit ==
    /\ ChatIdle
    /\ StreamIdle
    /\ ViewIdle
    /\ sessions \in [CallIds -> {NewSession(input) : input \in PairInputs}]

\* Mutant: the buffer is an attribute of the object (self.accumulated_text),
\* which every call on the object reads and writes.
ResumeCallOnSharedBuffer(i) ==
    /\ sessions[i].pc # "done"
    /\ LET t == Resume(ShortSchema, sessions[i])
       IN sessions' = [j \in CallIds |->
                          IF j = i THEN t
                          ELSE [sessions[j] EXCEPT
                                   !.accumulated_text = t.accumulated_text]]
    /\ UNCHANGED <<streamVars, chatVars, viewVars>>

\* The event loop resumes call i; the other calls stay suspended.  No call
\* assigns an attribute of the object, whose response_schema is ShortSchema
\* throughout.
ResumeCall(i) ==
    /\ sessions[i].pc # "done"
    /\ sessions' = [sessions EXCEPT ![i] = Resume(ShortSchema, sessions[i])]
    /\ UNCHANGED <<streamVars, chatVars, viewVars>>

PairNext == \E i \in CallIds : ResumeCall(i)

PairSpec == PairInit /\ [][PairNext]_vars

-----------------------------------------------------------------------------
(* The views: AnalyzeSolutionView, ChatView and GymSolutionView.            *)
(* Texts of requests and rows are strings here; a timestamp is <<>> for     *)
(* NULL and <<t>> for the time t.                                           *)

\* The value of a key that a request body does not carry.
Absent == "<absent>"

\* data.get(key, default)
PostGet(data, key, default) == IF data[key] = Absent THEN default ELSE data[key]

\* not value, for a string or None
Falsy(value) == value \in {None, ""}

\* int(text) for the texts it accepts; it raises ValueError for the others.
IntOf == ("1" :> 1) @@ ("2" :> 2)

\* The session key request.session.create() assigns.
NewKey == "k2"

\* get_user_session_info(request): a dict with the user or the session key.
get_user_session_info(req) ==
    IF req.user # None
    THEN [kind |-> "dict", user |-> req.user, session_key |-> None]
    ELSE [kind |-> "dict", user |-> None,
          session_key |-> IF req.session_key = None THEN NewKey ELSE req.session_key]

\* request.session.session_key after get_user_session_info(request).
SessionKeyAfter(req) ==
    IF req.user = None /\ req.session_key = None THEN NewKey ELSE req.session_key

\* Mutant: the function reads the user and the session key from the dict
\* that get_user_session_info returns.
filter_by_owner_info(queryset, req) ==
    IF req.user # None
    THEN [raised |-> "", rows |-> {r \in queryset : r.user = req.user}]
    ELSE IF req.session_key # None
    THEN [raised |-> "", rows |-> {r \in queryset : r.session_key = req.session_key}]
    ELSE [raised |-> "", rows |-> {}]

\* filter_by_owner(queryset, request): request.user and request.session are
\* attributes; a dict has keys and no such attribute.
filter_by_owner(queryset, req) ==
    IF req.kind # "request" THEN [raised |-> "AttributeError", rows |-> {}]
    ELSE IF req.user # None
    THEN [raised |-> "", rows |-> {r \in queryset : r.user = req.user}]
    ELSE IF req.session_key # None
    THEN [raised |-> "", rows |-> {r \in queryset : r.session_key = req.session_key}]
    ELSE [raised |-> "", rows |-> {}]

\* The methods of HTTP for which a view class defines a handler.  dispatch()
\* of APIView calls getattr(self, request.method.lower(),
\* self.http_method_not_allowed); AnalyzeSolutionView defines
\* transcribe_image and analyze, and neither post nor get.
Handlers ==
    [AnalyzeSolutionView |-> {},
     ChatView |-> {"post", "get"},
     GymSolutionView |-> {"post", "get"}]

\* The body of AnalyzeSolutionView.analyze for a POST: what it returns and
\* whether it has created the Analysis row and set last_analysis_id.
analyze(data) ==
    IF Falsy(PostGet(data, "problem", None))
    THEN [status |-> 400, error |-> "Input problem context", created |-> FALSE]
    ELSE IF Falsy(PostGet(data, "attempt", None))
    THEN [status |-> 400, error |-> "Input attempt context", created |-> FALSE]
    ELSE [status |-> 200, error |-> "", created |-> TRUE]

\* The statements of the save block of stream_with_db_save that can raise.
SaveSteps == <<"analysis.asave", "GymSesh.acreate", "GymQuestions.acreate">>

\* Where the save block raises, "" when it does not.
SaveFailures == {""} \cup {SaveSteps[i] : i \in 1..Len(SaveSteps)}

\* stream_with_db_save of AnalyzeSolutionView.analyze, consumed to its end:
\* it yields the streamer's events, then saves, and yields one more event.
\* The rows are those the save block has created when it raises at failure.
AnalysisStreamWithDbSave(streamed, analysis_id, failure) ==
    LET Reached(step) ==
            \/ failure = ""
            \/ \E i, j \in 1..Len(SaveSteps) :
                  SaveSteps[i] = step /\ SaveSteps[j] = failure /\ i < j
        gym_sesh == [id |-> "1", analysis |-> analysis_id, status |-> "PENDING"]
        gym_question == [id |-> "1", gym_sesh |-> gym_sesh.id, question_number |-> 1]
    IN [events |-> streamed \o
                   <<IF failure = ""
                     THEN [type |-> "analysis_saved", analysis_id |-> analysis_id,
                           gym_sesh_id |-> gym_sesh.id,
                           gym_question_id |-> gym_question.id,
                           question_number |-> 1, is_complete |-> TRUE]
                     ELSE [type |-> "save_error", content |-> failure,
                           is_complete |-> TRUE]>>,
        GymSesh |-> IF Reached("GymSesh.acreate") THEN <<gym_sesh>> ELSE <<>>,
        GymQuestions |-> IF Reached("GymQuestions.acreate")
                         THEN <<gym_question>> ELSE <<>>,
        session |-> IF failure = ""
                    THEN ("gym_sesh_id" :> gym_sesh.id)
                         @@ ("gym_question_id" :> gym_question.id)
                    ELSE <<>>]

\* GymSolutionView.post up to its return: the response and the tables as the
\* handler leaves them; reads names the tables a query was run on.
GymSolutionViewPost(req, now) ==
    LET owner_info == get_user_session_info(req)
        data == req.data
        gym_sesh_id == PostGet(data, "gym_sesh_id", "")
        gym_question_id == PostGet(data, "gym_question_id", "")
        number == PostGet(data, "question_number", "1")
        Returns(status, error, sesh, questions, reads) ==
            [status |-> status, error |-> error, GymSesh |-> sesh,
             GymQuestions |-> questions, reads |-> reads]
        query_set == filter_by_owner(
            {GymSesh[i] : i \in {j \in DOMAIN GymSesh : j = gym_sesh_id}}, owner_info)
    IN IF number \notin DOMAIN IntOf
       THEN Returns(500, "ValueError", GymSesh, GymQuestions, {})
       ELSE IF Falsy(gym_sesh_id)
       THEN Returns(404, "Gym session not found", GymSesh, GymQuestions, {})
       ELSE IF Falsy(gym_question_id)
       THEN Returns(404, "Gym question not found", GymSesh, GymQuestions, {})
       ELSE IF query_set.raised # ""
       THEN Returns(500, query_set.raised, GymSesh, GymQuestions, {})
       ELSE IF query_set.rows = {}
       THEN Returns(404, "Gym Session does not exist", GymSesh, GymQuestions,
                    {"GymSesh"})
       ELSE
       LET found == CHOOSE r \in query_set.rows : TRUE
           gym_sesh == IF found.status = "PENDING"
                       THEN [found EXCEPT !.started_at = <<now>>, !.status = "ACTIVE"]
                       ELSE found
           sesh == [GymSesh EXCEPT ![found.id] = gym_sesh]
           matches == {q \in DOMAIN GymQuestions :
                          /\ GymQuestions[q].gym_sesh = found.id
                          /\ GymQuestions[q].question_number = IntOf[number]}
           q == CHOOSE m \in matches : TRUE
           questions == [GymQuestions EXCEPT ![q] =
                            [@ EXCEPT !.status = "EVALUATING",
                                      !.attempt = data.attempt,
                                      !.answered_at = <<now>>,
                                      !.is_answered = TRUE]]
           both == {"GymSesh", "GymQuestions"}
       IN IF matches = {}
          THEN Returns(404, "Question does not exist", sesh, GymQuestions, both)
          ELSE IF Cardinality(matches) > 1
          THEN Returns(500, "MultipleObjectsReturned", sesh, GymQuestions, both)
          ELSE IF GymQuestions[q].is_answered
          THEN Returns(400, "Question has been answered", sesh, GymQuestions, both)
          ELSE IF data.attempt = Absent
          THEN Returns(500, "KeyError", sesh, GymQuestions, both)
          ELSE IF Falsy(PostGet(data, "problem", None))
          THEN Returns(400, "No problem context", sesh, questions, both)
          ELSE IF Falsy(PostGet(data, "attempt", None))
          THEN Returns(400, "Input attempt context", sesh, questions, both)
          ELSE Returns(200, "", sesh, questions, both)

\* The session object after the first statements of the save block of the
\* gym stream_with_db_save: gym_sesh is the object the handler fetched, and
\* asave() writes all its fields to the row.
SaveGymSesh(gym_sesh, is_correct) ==
    [gym_sesh EXCEPT !.num_questions = @ + 1,
                     !.score = IF is_correct = TRUE THEN @ + 1 ELSE @]

\* GymCompleteView.post: the response and the table GymSesh as the handler
\* leaves it.
GymCompleteViewPost(req, now) ==
    LET data == req.data
        gym_sesh_id == PostGet(data, "gym_sesh_id", None)
        owner_info == get_user_session_info(req)
        query_set == filter_by_owner(
            {GymSesh[i] : i \in {j \in DOMAIN GymSesh : j = gym_sesh_id}}, owner_info)
        gym_sesh == CHOOSE r \in query_set.rows : TRUE
    IN IF Falsy(gym_sesh_id)
       THEN [status |-> 400, error |-> "gym_sesh_id is required", GymSesh |-> GymSesh]
       ELSE IF query_set.raised # ""
       THEN [status |-> 500, error |-> query_set.raised, GymSesh |-> GymSesh]
       ELSE IF query_set.rows = {}
       THEN [status |-> 404, error |-> "Gym session not found or access denied",
             GymSesh |-> GymSesh]
       ELSE [status |-> 200, error |-> "",
             GymSesh |-> [GymSesh EXCEPT ![gym_sesh.id] =
                             [gym_sesh EXCEPT !.status = "COMPLETED",
                                              !.completed_at = <<now>>]]]

\* The statements of the save block of the gym stream_with_db_save that can
\* raise.
GymSaveSteps == <<"gym_sesh.asave", "gym_question.asave", "GymQuestions.acreate">>

GymSaveFailures == {""} \cup {GymSaveSteps[i] : i \in 1..Len(GymSaveSteps)}

\* stream_with_db_save of GymSolutionView.post, consumed to its end, for the
\* question row the handler has saved: the events it yields, the row as the
\* save block leaves it in the table, and the number of events yielded
\* before the save block starts.
GymStreamWithDbSave(streamed, gym_question, failure) ==
    LET Done(step) ==
            \/ failure = ""
            \/ \E i, j \in 1..Len(GymSaveSteps) :
                  GymSaveSteps[i] = step /\ GymSaveSteps[j] = failure /\ i < j
    IN [events |-> streamed \o
                   <<IF failure = ""
                     THEN [type |-> "gym_evaluation_saved",
                           gym_sesh_id |-> gym_question.gym_sesh,
                           question_number |-> gym_question.question_number + 1,
                           is_complete |-> TRUE]
                     ELSE [type |-> "save_error", content |-> failure,
                           is_complete |-> TRUE]>>,
        gym_question |-> IF Done("gym_question.asave")
                         THEN [gym_question EXCEPT !.status = "EVALUATED"]
                         ELSE gym_question,
        yielded_before_save |-> Len(streamed)]

\* ChatView.post up to its return.  The body of a JSON request is whatever
\* the document is: request.data is a list for an array, and a list has no
\* method get.
ChatViewPost(req) ==
    LET owner_info == get_user_session_info(req)
        data == req.data
        message == PostGet(data, "message", None)
        analysis_id == PostGet(data, "analysis_id", None)
        Returns(status, error, dict, rows, stream) ==
            [status |-> status, error |-> error, session |-> dict, Chat |-> rows,
             stream |-> stream]
        keys == ("analysis_id" :> analysis_id) @@ session
        found == {i \in 1..Len(Analysis) : Analysis[i].id = analysis_id}
        analysis == Analysis[CHOOSE i \in found : TRUE]
    IN IF req.body = "json array"
       THEN Returns(500, "AttributeError", session, Chat, "none")
       ELSE IF Falsy(message)
       THEN Returns(400, "Message is required", session, Chat, "none")
       ELSE IF Falsy(analysis_id)
       THEN Returns(400, "analysis_id is required", session, Chat, "none")
       ELSE IF found = {}
       THEN Returns(404, "Analysis not found", keys, Chat, "none")
       ELSE IF owner_info.user # None /\ analysis.user # owner_info.user
       THEN Returns(403, "Access denied", keys, Chat, "none")
       ELSE IF /\ owner_info.user = None
               /\ owner_info.session_key # None
               /\ analysis.session_key # owner_info.session_key
       THEN Returns(403, "Access denied", keys, Chat, "none")
       ELSE Returns(200, "", keys,
                    Append(Chat, [role |-> "user", content |-> message,
                                  analysis |-> analysis.id,
                                  user |-> owner_info.user,
                                  session_key |-> owner_info.session_key]),
                    "pending")

\* The clients and the bodies of the requests.
Users == {None, "alice"}

AnalysisBodies == [problem : {Absent, "", "p"}, attempt : {Absent, "a"}]

ChatBodies == [message : {Absent, "", "hi"}, analysis_id : {Absent, "1", "2"}]

GymBodies ==
    [gym_sesh_id : {Absent, "", "1"}, gym_question_id : {Absent, "1"},
     question_number : {Absent, "x"}, problem : {Absent, "p"},
     attempt : {Absent, "a"}]

\* The most requests of one behaviour.
MaxRequests == 2

Request(view, body, data) ==
    [kind |-> "request", view |-> view, method |-> "POST", user |-> user,
     session_key |-> session_key, body |-> body, data |-> data]

\* The tables as the tests set them up (create_test_gym_setup): one analysis,
\* one gym session and its first question, answered or not.
ViewInit ==
    /\ Analysis = <<[id |-> "1", problem |-> "p", attempt |-> "a", user |-> None,
                     session_key |-> "k1"]>>
    /\ Chat = <<>>
    /\ \E status \in {"PENDING", "ACTIVE"} :
          GymSesh = ("1" :> [id |-> "1", analysis |-> "1", status |-> status,
                             started_at |-> IF status = "PENDING" THEN <<>> ELSE <<0>>,
                             completed_at |-> <<>>, num_questions |-> 0, score |-> 0,
                             user |-> None, session_key |-> "k1"])
    /\ \E answered \in BOOLEAN :
          GymQuestions =
              ("1" :> [id |-> "1", gym_sesh |-> "1", question_number |-> 1,
                       is_answered |-> answered,
                       status |-> IF answered THEN "EVALUATED" ELSE "PENDING",
                       attempt |-> IF answered THEN "a" ELSE "",
                       answered_at |-> IF answered THEN <<0>> ELSE <<>>])
    /\ session = <<>>
    /\ session_key \in {None, "k1"}
    /\ user \in Users
    /\ streams_opened = 0
    /\ request = <<>>
    /\ response = <<>>
    /\ handled = 0
    /\ AnalysisTranscript = <<>>
    /\ GymTranscript = <<>>
    /\ model_calls = 0
    /\ wrap_pc = "idle"
    /\ accumulated_response = <<>>
    /\ forwarded = <<>>
    /\ save_raised = FALSE

\* No response is being streamed: the views handle one request at a time.
NoStreamPending == handled > 0 => response.stream # "pending"

\* POST /api/analysis/: dispatch() finds no handler named post.
AnalysisPost ==
    /\ handled < MaxRequests
    /\ NoStreamPending
    /\ \E data \in AnalysisBodies :
          LET req == Request("AnalyzeSolutionView", "form", data)
              out == IF "post" \in Handlers.AnalyzeSolutionView
                     THEN analyze(data)
                     ELSE [status |-> 405, error |-> "Method Not Allowed",
                           created |-> FALSE]
              row == [id |-> "2", problem |-> data.problem, attempt |-> data.attempt,
                      user |-> None, session_key |-> None]
          IN /\ request' = req
             /\ response' = [status |-> out.status, error |-> out.error,
                             reads |-> {},
                             stream |-> IF out.status = 200 THEN "pending" ELSE "none"]
             /\ Analysis' = IF out.created THEN Append(Analysis, row) ELSE Analysis
             /\ session' = IF out.created
                           THEN ("last_analysis_id" :> "2") @@ session ELSE session
    /\ handled' = handled + 1
    /\ UNCHANGED <<streamVars, chatVars, sessions, Chat, GymSesh, GymQuestions,
                   session_key, user, streams_opened, transcriptVars, wrapperVars>>

\* POST /api/chat/
ChatPost ==
    /\ handled < MaxRequests
    /\ NoStreamPending
    /\ \E body \in {"form", "json object", "json array"}, data \in ChatBodies :
          LET req == Request("ChatView", body, data)
              out == ChatViewPost(req)
          IN /\ body = "json array" => data = [message |-> Absent, analysis_id |-> Absent]
             /\ request' = req
             /\ response' = [status |-> out.status, error |-> out.error,
                             reads |-> {}, stream |-> out.stream]
             /\ session' = out.session
             /\ Chat' = out.Chat
             /\ session_key' = SessionKeyAfter(req)
    /\ handled' = handled + 1
    /\ UNCHANGED <<streamVars, chatVars, sessions, Analysis, GymSesh, GymQuestions,
                   user, streams_opened, transcriptVars, wrapperVars>>

\* The server iterates the body of a chat response: stream_with_db_save opens
\* the upstream stream and saves the reply when the complete event passes.
ChatStreamWithDbSave ==
    /\ handled > 0
    /\ request.view = "ChatView"
    /\ response.stream = "pending"
    /\ streams_opened' = streams_opened + 1
    /\ response' = [response EXCEPT !.stream = "consumed"]
    /\ \/ \E reply \in {"", "yes"} :
             Chat' = Append(Chat, [role |-> "model", content |-> reply,
                                   analysis |-> Chat[Len(Chat)].analysis,
                                   user |-> Chat[Len(Chat)].user,
                                   session_key |-> Chat[Len(Chat)].session_key])
       \/ Chat' = Chat
    /\ UNCHANGED <<streamVars, chatVars, sessions, Analysis, GymSesh, GymQuestions,
                   session, session_key, user, request, handled, transcriptVars, wrapperVars>>

\* POST /api/gym/submit/
GymPost ==
    /\ handled < MaxRequests
    /\ NoStreamPending
    /\ \E data \in GymBodies :
          LET req == Request("GymSolutionView", "form", data)
              out == GymSolutionViewPost(req, handled + 1)
          IN /\ request' = req
             /\ response' = [status |-> out.status, error |-> out.error,
                             reads |-> out.reads,
                             stream |-> IF out.status = 200 THEN "pending" ELSE "none"]
             /\ GymSesh' = out.GymSesh
             /\ GymQuestions' = out.GymQuestions
             /\ session_key' = SessionKeyAfter(req)
    /\ handled' = handled + 1
    /\ UNCHANGED <<streamVars, chatVars, sessions, Analysis, Chat, session, user,
                   streams_opened, transcriptVars, wrapperVars>>

\* What becomes of the image and of the call of the model, when transcribe
\* gets that far: Image.open or the call raises, or the model answers with a
\* text, which may be empty.
TranscribeOutcomes == {"bad image", "api error", "empty", "text"}

\* The text the model answers with.
ModelText == "x"

\* Mutant: the image is opened and sent to the model whether there is one or
\* not, and the fallback text only replaces an empty answer.
transcribe_image_first(image_file, text_fallback, outcome) ==
    IF outcome = "bad image" \/ image_file = None
    THEN [raised |-> "Exception", result |-> None, calls |-> 0]
    ELSE IF outcome = "api error"
    THEN [raised |-> "Exception", result |-> None, calls |-> 1]
    ELSE IF outcome = "text"
    THEN [raised |-> "", result |-> ModelText, calls |-> 1]
    ELSE [raised |-> "", result |-> text_fallback, calls |-> 1]

\* ImageTranscriber.transcribe(image_file, text_fallback): what it raises or
\* returns, and how often it has called generate_content.
transcribe(image_file, text_fallback, outcome) ==
    IF image_file = None
    THEN IF text_fallback # ""
         THEN [raised |-> "", result |-> text_fallback, calls |-> 0]
         ELSE [raised |-> "ValueError", result |-> None, calls |-> 0]
    ELSE IF outcome = "bad image"
    THEN [raised |-> "Exception", result |-> None, calls |-> 0]
    ELSE IF outcome = "api error"
    THEN [raised |-> "Exception", result |-> None, calls |-> 1]
    ELSE IF outcome = "text"
    THEN [raised |-> "", result |-> ModelText, calls |-> 1]
    ELSE [raised |-> "", result |-> text_fallback, calls |-> 1]

\* The status a transcribe view answers with: 400 for ValueError, 500 for
\* any other exception.
TranscribeStatus(out) ==
    IF out.raised = "" THEN 200 ELSE IF out.raised = "ValueError" THEN 400 ELSE 500

\* The uploads and the form fields of a transcribe request.
Uploads == [data_image : {None, "img"}]

TranscribeBodies == [data_text : {Absent, "t"}, is_question : {Absent, ""}]

\* The most transcribe requests of one behaviour.
MaxTranscribes == 2

TranscribeRequest(view, files, data) ==
    [kind |-> "request", view |-> view, method |-> "POST", user |-> user,
     session_key |-> session_key, body |-> "form", data |-> data, FILES |-> files]

\* POST /api/gym/transcribe/
TranscribeGymImagePost ==
    /\ handled < MaxTranscribes
    /\ \E files \in Uploads, data \in TranscribeBodies, outcome \in TranscribeOutcomes :
          LET req == TranscribeRequest("TranscribeGymImageView", files, data)
              image_file == files.data_image
              text_fallback == PostGet(data, "data_text", "")
              out == transcribe(image_file, text_fallback, outcome)
              id == Len(GymTranscript) + 1
          IN /\ data.is_question = Absent
             /\ request' = req
             /\ response' = [status |-> TranscribeStatus(out), error |-> out.raised,
                             reads |-> {}, stream |-> "none", data |-> out.result]
             /\ model_calls' = model_calls + out.calls
             /\ GymTranscript' =
                    IF out.raised = ""
                    THEN Append(GymTranscript,
                                [id |-> id, image_obj |-> image_file,
                                 text_obj |-> text_fallback, transcript |-> out.result])
                    ELSE GymTranscript
             /\ session' = IF out.raised = ""
                           THEN ("gym_transcript" :> id) @@ session ELSE session
    /\ handled' = handled + 1
    /\ UNCHANGED <<streamVars, chatVars, sessions, Analysis, Chat, GymSesh,
                   GymQuestions, session_key, user, streams_opened,
                   AnalysisTranscript, wrapperVars>>

\* POST /api/analysis/transcribe/
TranscribeAnalysisImagePost ==
    /\ handled < MaxTranscribes
    /\ \E files \in Uploads, data \in TranscribeBodies, outcome \in TranscribeOutcomes :
          LET req == TranscribeRequest("TranscribeAnalysisImageView", files, data)
              image_file == files.data_image
              text_fallback == PostGet(data, "data_text", "")
              is_question == data.is_question # Absent
              owner_info == get_user_session_info(req)
              out == transcribe(image_file, text_fallback, outcome)
              id == Len(AnalysisTranscript) + 1
          IN /\ request' = req
             /\ response' = [status |-> TranscribeStatus(out), error |-> out.raised,
                             reads |-> {}, stream |-> "none", data |-> out.result]
             /\ model_calls' = model_calls + out.calls
             /\ AnalysisTranscript' =
                    IF out.raised = ""
                    THEN Append(AnalysisTranscript,
                                [id |-> id, user |-> owner_info.user,
                                 session_key |-> owner_info.session_key,
                                 image_obj |-> image_file, text_obj |-> text_fallback,
                                 is_question |-> is_question,
                                 transcript |-> out.result])
                    ELSE AnalysisTranscript
             /\ session' = IF out.raised = ""
                           THEN ("analysis_transcript" :> id) @@ session ELSE session
             /\ session_key' = SessionKeyAfter(req)
    /\ handled' = handled + 1
    /\ UNCHANGED <<streamVars, chatVars, sessions, Analysis, Chat, GymSesh,
                   GymQuestions, user, streams_opened, GymTranscript,
                   wrapperVars>>

ViewNext ==
    \/ AnalysisPost
    \/ ChatPost
    \/ ChatStreamWithDbSave
    \/ GymPost

ViewSpecInit == ViewInit /\ StreamIdle /\ ChatIdle /\ sessions = <<>>

ViewSpec == ViewSpecInit /\ [][ViewNext]_vars

\* The transcribe views, on empty tables.
TranscribeInit ==
    /\ StreamIdle
    /\ ChatIdle
    /\ sessions = <<>>
    /\ Analysis = <<>>
    /\ Chat = <<>>
    /\ GymSesh = <<>>
    /\ GymQuestions = <<>>
    /\ session = <<>>
    /\ session_key \in {None, "k1"}
    /\ user \in Users
    /\ streams_opened = 0
    /\ request = <<>>
    /\ response = <<>>
    /\ handled = 0
    /\ AnalysisTranscript = <<>>
    /\ GymTranscript = <<>>
    /\ model_calls = 0
    /\ wrap_pc = "idle"
    /\ accumulated_response = <<>>
    /\ forwarded = <<>>
    /\ save_raised = FALSE

TranscribeNext ==
    \/ TranscribeGymImagePost
    \/ TranscribeAnalysisImagePost

TranscribeSpec == TranscribeInit /\ [][TranscribeNext]_vars

-----------------------------------------------------------------------------
(* stream_with_db_save of ChatView.post, step by step *)

\* The responses of the upstream to the chat request, in chunk texts.
ReplyStreams ==
    {<<>>, <<<<>>>>, <<<<"a">>>>, <<<<"a">>, <<"b">>>>, <<<<"a">>, <<>>, <<"b">>>>}

\* event_data of a chunk: json.loads of what follows "data: ", stripped.
EventData(chunk) ==
    IF StartsWithAt(chunk, 1, DataPrefix)
    THEN JsonLoads(Slice(chunk, Len(DataPrefix) + 1, Len(chunk)))
    ELSE [ok |-> FALSE, val |-> JNull]

\* The rows of the conversation as the handler loads them for the history.
HistoryOf(rows) ==
    [i \in 1..Len(rows) |-> [role |-> rows[i].role, content |-> rows[i].content]]

\* One analysis of the anonymous browser session k1, and no message yet.
ChatWrapInit ==
    /\ StreamIdle
    /\ ChatIdle
    /\ sessions = <<>>
    /\ Analysis = <<[id |-> "1", problem |-> "p", attempt |-> "a", user |-> None,
                     session_key |-> "k1"]>>
    /\ Chat = <<>>
    /\ GymSesh = <<>>
    /\ GymQuestions = <<>>
    /\ session = <<>>
    /\ session_key = "k1"
    /\ user = None
    /\ streams_opened = 0
    /\ request = <<>>
    /\ response = <<>>
    /\ handled = 0
    /\ AnalysisTranscript = <<>>
    /\ GymTranscript = <<>>
    /\ model_calls = 0
    /\ wrap_pc = "idle"
    /\ accumulated_response = <<>>
    /\ forwarded = <<>>
    /\ save_raised = FALSE

\* POST /api/chat/ while no response is being streamed.
ChatRequest == wrap_pc = "idle" /\ ChatPost

\* The server starts to iterate the body of the response: the wrapper
\* creates the ChatStreamGenerator and asks it for its first chunk.
ChatWrapOpen ==
    /\ wrap_pc = "idle"
    /\ handled > 0
    /\ request.view = "ChatView"
    /\ response.stream = "pending"
    /\ wrap_pc' = "waiting"
    /\ accumulated_response' = <<>>
    /\ conversation_history' = HistoryOf(SubSeq(Chat, 1, Len(Chat) - 1))
    /\ user_message' = PostGet(request.data, "message", None)
    /\ chat_upstream' \in ReplyStreams
    /\ chat_pc' = "start"
    /\ UNCHANGED <<streamVars, sessions, contents, chat_text, chat_events, chat_chunks,
                   chat_raised, chat_calls, chat_cancelled, Analysis, Chat, GymSesh,
                   GymQuestions, session, session_key, user, streams_opened, request,
                   response, handled, transcriptVars, forwarded, save_raised>>

\* The wrapper awaits the generator, which has no chunk for it yet.
ChatWrapWaits == wrap_pc = "waiting" /\ Len(forwarded) = Len(chat_events)

\* yield chunk: the chunk of the generator goes to the server.
ChatWrapForward ==
    /\ wrap_pc = "waiting"
    /\ Len(forwarded) < Len(chat_events)
    /\ forwarded' = Append(forwarded, Frame(chat_events[Len(forwarded) + 1]))
    /\ wrap_pc' = "yield"
    /\ UNCHANGED <<streamVars, chatVars, sessions, Analysis, Chat, GymSesh,
                   GymQuestions, session, session_key, user, streams_opened, request,
                   response, handled, transcriptVars, accumulated_response,
                   save_raised>>

\* The MODEL row of the reply.
ModelRow(content) ==
    [role |-> "model", content |-> content, analysis |-> Chat[Len(Chat)].analysis,
     user |-> Chat[Len(Chat)].user, session_key |-> Chat[Len(Chat)].session_key]

\* Mutant: the reply is saved at the error event as well.
ChatWrapResumeOnError ==
    /\ wrap_pc = "yield"
    /\ LET event_data == EventData(forwarded[Len(forwarded)])
           type == event_data.val.val[TypeKey].val
       IN IF ~event_data.ok
          THEN UNCHANGED <<accumulated_response, Chat, save_raised>>
          ELSE IF type = TypeText("text")
          THEN /\ accumulated_response' =
                     accumulated_response \o event_data.val.val[ContentKey].val
               /\ UNCHANGED <<Chat, save_raised>>
          ELSE /\ \/ Chat' = Append(Chat, ModelRow(accumulated_response))
                     /\ save_raised' = save_raised
                  \/ Chat' = Chat /\ save_raised' = TRUE
               /\ UNCHANGED accumulated_response
    /\ wrap_pc' = "waiting"
    /\ UNCHANGED <<streamVars, chatVars, sessions, Analysis, GymSesh, GymQuestions,
                   session, session_key, user, streams_opened, request, response,
                   handled, transcriptVars, forwarded>>

\* The server asks for the next chunk: the wrapper parses the chunk it has
\* yielded, adds a text to accumulated_response, saves the reply at the
\* complete event, and asks the generator for the next chunk.  An exception
\* of the parsing or of the save is swallowed.
ChatWrapResume ==
    /\ wrap_pc = "yield"
    /\ LET event_data == EventData(forwarded[Len(forwarded)])
           type == event_data.val.val[TypeKey].val
       IN IF ~event_data.ok
          THEN UNCHANGED <<accumulated_response, Chat, save_raised>>
          ELSE IF type = TypeText("text")
          THEN /\ accumulated_response' =
                     accumulated_response \o event_data.val.val[ContentKey].val
               /\ UNCHANGED <<Chat, save_raised>>
          ELSE IF type = TypeText("complete")
          THEN /\ \/ Chat' = Append(Chat, ModelRow(accumulated_response))
                     /\ save_raised' = save_raised
                  \/ Chat' = Chat /\ save_raised' = TRUE
               /\ UNCHANGED accumulated_response
          ELSE UNCHANGED <<accumulated_response, Chat, save_raised>>
    /\ wrap_pc' = "waiting"
    /\ UNCHANGED <<streamVars, chatVars, sessions, Analysis, GymSesh, GymQuestions,
                   session, session_key, user, streams_opened, request, response,
                   handled, transcriptVars, forwarded>>

\* The generator has ended: so does the wrapper.
ChatWrapEnd ==
    /\ wrap_pc = "waiting"
    /\ chat_pc = "done"
    /\ wrap_pc' = "done"
    /\ response' = [response EXCEPT !.stream = "consumed"]
    /\ UNCHANGED <<streamVars, chatVars, sessions, Analysis, Chat, GymSesh,
                   GymQuestions, session, session_key, user, streams_opened, request,
                   handled, transcriptVars, accumulated_response, forwarded,
                   save_raised>>

\* The client has gone: the server closes the wrapper at its yield.
ChatWrapClose ==
    /\ wrap_pc = "yield"
    /\ wrap_pc' = "closed"
    /\ response' = [response EXCEPT !.stream = "closed"]
    /\ UNCHANGED <<streamVars, chatVars, sessions, Analysis, Chat, GymSesh,
                   GymQuestions, session, session_key, user, streams_opened, request,
                   handled, transcriptVars, accumulated_response, forwarded,
                   save_raised>>

ChatWrapNext ==
    \/ ChatRequest
    \/ ChatWrapOpen
    \/ ChatWrapWaits /\ ChatGenerate
    \/ ChatWrapWaits /\ ChatNextChunk
    \/ ChatWrapWaits /\ ChatResume
    \/ ChatWrapWaits /\ ChatStreamEnd
    \/ ChatWrapWaits /\ ChatIterationRaises
    \/ ChatWrapWaits /\ ChatFinish
    \/ ChatWrapForward
    \/ ChatWrapResume
    \/ ChatWrapEnd
    \/ ChatWrapClose

ChatWrapSpec == ChatWrapInit /\ [][ChatWrapNext]_vars

-----------------------------------------------------------------------------
(* accumulated_result of stream_with_db_save of the analysis and gym views *)

Title == <<"t", "i", "t", "l", "e">>
Tag == <<"t", "a", "g">>
Tags == <<"t", "a", "g", "s">>
Praise == <<"p", "r", "a", "i", "s", "e">>
Diagnosis == <<"d", "i", "a", "g", "n", "o", "s", "i", "s">>
Explanation == <<"e", "x", "p", "l", "a", "n", "a", "t", "i", "o", "n">>
PracticeProblem ==
    <<"p", "r", "a", "c", "t", "i", "c", "e", "_", "p", "r", "o", "b", "l", "e", "m">>
IsCorrect == <<"i", "s", "_", "c", "o", "r", "r", "e", "c", "t">>
Feedback == <<"f", "e", "e", "d", "b", "a", "c", "k">>
Solution == <<"s", "o", "l", "u", "t", "i", "o", "n">>
NextQuestion == <<"n", "e", "x", "t", "_", "q", "u", "e", "s", "t", "i", "o", "n">>

\* accumulated_result as the analysis wrapper creates it: the key of the
\* list is tag.
AnalysisResult ==
    (Title :> JStr(<<>>)) @@ (Tag :> JArray(<<>>)) @@ (Praise :> JStr(<<>>))
    @@ (Diagnosis :> JStr(<<>>)) @@ (Explanation :> JStr(<<>>))
    @@ (PracticeProblem :> JStr(<<>>))

\* accumulated_result as the gym wrapper creates it: is_correct is None.
GymResult ==
    (IsCorrect :> JNull) @@ (Feedback :> JStr(<<>>)) @@ (Solution :> JStr(<<>>))
    @@ (NextQuestion :> JStr(<<>>))

\* The keys the save blocks read with accumulated_result.get(key, default),
\* and the defaults.
AnalysisDefaults ==
    (Title :> JStr(<<>>)) @@ (Tags :> JArray(<<>>)) @@ (Praise :> JStr(<<>>))
    @@ (Diagnosis :> JStr(<<>>)) @@ (Explanation :> JStr(<<>>))
    @@ (PracticeProblem :> JStr(<<>>))

GymDefaults ==
    (IsCorrect :> JBool(FALSE)) @@ (Feedback :> JStr(<<>>)) @@ (Solution :> JStr(<<>>))
    @@ (NextQuestion :> JStr(<<>>))

\* The event types the loop of a wrapper has a branch for.
AnalysisBranches == {"partial", "array", "boolean", "complete"}
GymBranches == {"partial", "boolean", "complete"}

\* accumulated_result after the loop over the chunks: a partial event adds
\* its content to the field's value, an array or boolean event assigns it,
\* a complete event whose content is a dict updates the result with it; an
\* exception (a chunk that does not parse, a key that is missing, a value
\* that is no string) is swallowed.
RECURSIVE Accumulate(_, _, _)
Accumulate(chunks, result, branches) ==
    IF chunks = <<>> THEN result
    ELSE LET event_data == EventData(Head(chunks))
             type == event_data.val.val[TypeKey].val
             field == event_data.val.val[FieldKey].val
             content == event_data.val.val[ContentKey]
             Is(t) == type = TypeText(t) /\ t \in branches
             next ==
                 IF ~event_data.ok THEN result
                 ELSE IF Is("partial")
                 THEN IF /\ field \in DOMAIN result
                         /\ result[field].kind = "str"
                         /\ content.kind = "str"
                      THEN [result EXCEPT ![field] = JStr(@.val \o content.val)]
                      ELSE result
                 ELSE IF Is("array") \/ Is("boolean")
                 THEN (field :> content) @@ result
                 ELSE IF Is("complete") /\ content.kind = "object"
                 THEN content.val @@ result
                 ELSE result
         IN Accumulate(Tail(chunks), next, branches)

\* The values the save block stores.
Saved(result, defaults) == [k \in DOMAIN defaults |-> Get(result, k, defaults[k])]

-----------------------------------------------------------------------------
(* Properties of StreamGenerator.generate *)

IsTerminal(e) == e.type \in {"complete", "error"}

TerminalIndexes(evs) == {i \in 1..Len(evs) : IsTerminal(evs[i])}

Last(seq) == seq[Len(seq)]

Front(seq) == Slice(seq, 1, Len(seq) - 1)

\* C1: in every state at most one terminal event (complete or error) has
\* been emitted and no event follows it; once the generator is exhausted
\* exactly one has been emitted, as the last event.
C1_OneTerminalEventLast ==
    /\ Cardinality(TerminalIndexes(events)) <= 1
    /\ TerminalIndexes(events) \subseteq {Len(events)}
    /\ pc = "done" => TerminalIndexes(events) = {Len(events)} /\ events # <<>>

\* A session exhausted after three or more events, ended by a complete event.
C1_Witness ==
    /\ pc = "done"
    /\ Len(events) >= 3
    /\ Last(events).type = "complete"

\* The contents of the partial events of one string field, concatenated in
\* emission order.
RECURSIVE PartialText(_, _)
PartialText(evs, name) ==
    IF evs = <<>> THEN <<>>
    ELSE (IF Head(evs).type = "partial" /\ Head(evs).field = name
          THEN Head(evs).content.val ELSE <<>>)
         \o PartialText(Tail(evs), name)

\* C2: at stream end the partial events of every string field concatenate
\* to the field's unescaped value in the accumulated text: no character is
\* skipped or duplicated, however the text was cut into deltas.
C2_PartialsConcatenateToValue ==
    pc = "done" =>
        \A name \in DOMAIN field_positions :
            PartialText(events, name) = CurrentValue(accumulated_text, name)

C4_ErrorEventAfterEmittedEvents ==
    [][/\ raised' # raised =>
            /\ TerminalIndexes(events) = {}
            /\ events' = Append(events,
                   Event("error", FieldError, JStr(raised'[1]), TRUE))
       /\ raised # <<>> => events' = events]_vars

\* The upstream raised after two or more events and the generator is exhausted.
C4_Witness ==
    /\ pc = "done"
    /\ raised = << <<"r", "e", "s", "e", "t">> >>
    /\ Len(events) >= 3
    /\ TerminalIndexes(events) = {Len(events)}

BooleanEvents(evs, name) ==
    {i \in 1..Len(evs) : evs[i].type = "boolean" /\ evs[i].field = name}

\* C5: every boolean field has at most one boolean event, and when the
\* accumulated text parses at the end the event's value is the value of that
\* field in the parsed object.
C5_BooleanOnceAndAsParsed ==
    \A name \in DOMAIN boolean_fields_sent :
        /\ Cardinality(BooleanEvents(events, name)) <= 1
        /\ (events # <<>> /\ Last(events).type = "complete"
              /\ JsonLoads(accumulated_text).ok) =>
              \A i \in BooleanEvents(events, name) :
                  LET doc == JsonLoads(accumulated_text).val
                  IN /\ doc.kind = "object"
                     /\ name \in DOMAIN doc.val
                     /\ doc.val[name] = events[i].content

\* The index of the quote that closes a JSON string literal whose content
\* starts at index i (a backslash escapes the next character), 0 if none.
RECURSIVE LiteralEnd(_, _)
LiteralEnd(text, i) ==
    IF i > Len(text) THEN 0
    ELSE IF text[i] = Quote THEN i
    ELSE IF text[i] = Backslash THEN LiteralEnd(text, i + 2)
    ELSE LiteralEnd(text, i + 1)

\* The contents of the complete double-quoted string literals of a text.
RECURSIVE StringLiterals(_, _)
StringLiterals(text, i) ==
    IF i > Len(text) THEN <<>>
    ELSE IF text[i] # Quote THEN StringLiterals(text, i + 1)
    ELSE IF LiteralEnd(text, i + 1) = 0 THEN <<>>
    ELSE <<Slice(text, i + 1, LiteralEnd(text, i + 1) - 1)>>
         \o StringLiterals(text, LiteralEnd(text, i + 1) + 1)

\* C6: an array event is emitted for a delta only if the bracket content
\* differs from the one captured after the previous delta, and its items are
\* the double-quoted string literals of the current bracket content, in order.
C6_ArrayEventFollowsBracketContent ==
    pc = "yield_array" =>
        LET af == ArrayFieldName(response_schema)
            now == ArraySearch(accumulated_text, af).group
            before == ArraySearch(Concat(Front(sent_chunks)), af)
            literals == StringLiterals(now, 1)
        IN /\ ~(before.found /\ before.group = now)
           /\ Last(events).content =
                 JArray([i \in 1..Len(literals) |-> JStr(UnescapeItem(literals[i]))])

Derivatives == <<"D", "e", "r", "i", "v", "a", "t", "i", "v", "e", "s">>
Calculus == <<"C", "a", "l", "c", "u", "l", "u", "s">>
Chain == <<"C", "h", "a", "i", "n">>

ScenarioObject ==
    JObject((Title :> JStr(Derivatives))
            @@ (Tags :> JArray(<<JStr(Calculus), JStr(Chain)>>))
            @@ (IsCorrect :> JBool(TRUE)))

\* The session of Scenario A: its four deltas delivered, no exception, the
\* generator exhausted.
ScenarioDone ==
    /\ response_schema = ScenarioSchema
    /\ sent_chunks = ScenarioChunks
    /\ raised = <<>>
    /\ pc = "done"

\* Whether the events of want occur in evs, in that order.
RECURSIVE IsSubsequence(_, _)
IsSubsequence(want, evs) ==
    IF want = <<>> THEN TRUE
    ELSE IF evs = <<>> THEN FALSE
    ELSE IF Head(want) = Head(evs) THEN IsSubsequence(Tail(want), Tail(evs))
    ELSE IsSubsequence(want, Tail(evs))

\* C7 as stated: Scenario A emits the two partial events, then array events
\* for ["Calc"], ["Calculus"] and ["Calculus","Chain"], the boolean event and
\* the complete event.
C7_ScenarioAsStated ==
    ScenarioDone =>
        /\ events[1] = Event("partial", Title, JStr(<<"D", "e", "r">>), FALSE)
        /\ Last(events) = Event("complete", FieldAll, ScenarioObject, TRUE)
        /\ IsSubsequence(
              <<Event("partial", Title, JStr(<<"D", "e", "r">>), FALSE),
                Event("partial", Title, JStr(<<"i", "v", "a", "t", "i", "v", "e", "s">>), FALSE),
                Event("array", Tags, JArray(<<JStr(<<"C", "a", "l", "c">>)>>), FALSE),
                Event("array", Tags, JArray(<<JStr(Calculus)>>), FALSE),
                Event("array", Tags, JArray(<<JStr(Calculus), JStr(Chain)>>), FALSE),
                Event("boolean", IsCorrect, JBool(TRUE), FALSE),
                Event("complete", FieldAll, ScenarioObject, TRUE)>>,
              events)

\* C7 amended: Scenario A emits exactly the two partial events, one array
\* event carrying both items, the boolean event and the complete event.
C7_ScenarioEvents ==
    ScenarioDone =>
        events = <<Event("partial", Title, JStr(<<"D", "e", "r">>), FALSE),
                   Event("partial", Title, JStr(<<"i", "v", "a", "t", "i", "v", "e", "s">>), FALSE),
                   Event("array", Tags, JArray(<<JStr(Calculus), JStr(Chain)>>), FALSE),
                   Event("boolean", IsCorrect, JBool(TRUE), FALSE),
                   Event("complete", FieldAll, ScenarioObject, TRUE)>>

C7_Witness == ScenarioDone /\ Len(events) = 5

-----------------------------------------------------------------------------
(* Properties of ChatStreamGenerator *)

\* The role an entry is to be given: model for assistant and model, user
\* for every other value.
NormalizedRole(message) ==
    IF "role" \in DOMAIN message /\ message.role \in {"assistant", "model"}
    THEN "model" ELSE "user"

\* C8: every history entry becomes exactly one turn: a model turn for the
\* roles assistant and model, a user turn for any other role; none is dropped.
C8_EveryEntryBecomesOneTurn ==
    chat_pc # "start" =>
        /\ Len(contents) = Len(conversation_history) + 1
        /\ \A i \in 1..Len(conversation_history) :
              contents[i].role = NormalizedRole(conversation_history[i])

\* A history whose entries all carry one of the roles user, assistant, model.
KnownRoles ==
    \A i \in 1..Len(conversation_history) :
        /\ "role" \in DOMAIN conversation_history[i]
        /\ conversation_history[i].role \in {"user", "assistant", "model"}

\* C9: for a history of n entries with the roles user, assistant or model the
\* contents are n + 1 turns: the history turns in their order with their
\* content, then a user turn with the current message.
C9_HistoryThenCurrentMessage ==
    (chat_pc # "start" /\ KnownRoles) =>
        LET n == Len(conversation_history)
        IN /\ Len(contents) = n + 1
           /\ \A i \in 1..n :
                 /\ contents[i].role = NormalizedRole(conversation_history[i])
                 /\ contents[i].parts =
                       <<[text |-> IF "content" \in DOMAIN conversation_history[i]
                                   THEN conversation_history[i].content ELSE <<>>]>>
           /\ contents[n + 1] = [role |-> "user", parts |-> <<[text |-> user_message]>>]

\* Scenario D: history user "hi", assistant "hello", message "bye".
C9_Witness ==
    /\ chat_pc # "start"
    /\ conversation_history =
          <<[role |-> "user", content |-> Hi], [role |-> "assistant", content |-> Hello]>>
    /\ user_message = Bye
    /\ contents = <<[role |-> "user", parts |-> <<[text |-> Hi]>>],
                    [role |-> "model", parts |-> <<[text |-> Hello]>>],
                    [role |-> "user", parts |-> <<[text |-> Bye]>>]>>

\* The contents of the text events, in emission order.
TextContents(evs) ==
    LET sel == SelectSeq(evs, LAMBDA e : e.type = "text")
    IN [i \in 1..Len(sel) |-> sel[i].content.val]

NonEmptyChunks(chunks) == SelectSeq(chunks, LAMBDA c : c # <<>>)

\* C10 as stated: one text event per upstream delta, with the delta's text.
C10_TextEventPerDelta ==
    chat_pc = "done" => TextContents(chat_events) = chat_chunks

\* C10 amended: the text events carry, in order and unmodified, the upstream
\* deltas whose text is not empty (a delta without text emits nothing), and
\* a complete event carries the concatenation of the text events' contents.
C10_TextEventPerNonEmptyDelta ==
    /\ TextContents(chat_events) = NonEmptyChunks(chat_chunks)
    /\ \A i \in 1..Len(chat_events) :
          chat_events[i].type = "complete" =>
              /\ i = Len(chat_events)
              /\ chat_events[i].content = JStr(Concat(TextContents(chat_events)))
    /\ (chat_pc = "done" /\ chat_events[Len(chat_events)].type # "error") =>
          chat_events[Len(chat_events)].type = "complete"

\* A session that ended normally after two text deltas with a delta without
\* text between them.
C10_Witness ==
    /\ chat_pc = "done"
    /\ chat_chunks = << <<"a">>, <<>>, <<"b">> >>
    /\ chat_events = <<ChatEvent("text", JStr(<<"a">>), FALSE),
                       ChatEvent("text", JStr(<<"b">>), FALSE),
                       ChatEvent("complete", JStr(<<"a", "b">>), TRUE)>>

-----------------------------------------------------------------------------
(* Properties of a session of either generator *)

ErrorIndexes(evs) == {i \in 1..Len(evs) : evs[i].type = "error"}

\* C11: each invocation of generate(), of either generator, issues the
\* upstream call exactly once: never more than once, once as soon as the
\* generator has run, and when the upstream has raised there is exactly one
\* error event, it is the last event and no second call was made.
C11_UpstreamOpenedOnce ==
    /\ calls <= 1
    /\ chat_calls <= 1
    /\ pc \in {"await", "yield_partial", "yield_boolean", "yield_array",
               "yield_complete", "yield_error", "done"} => calls = 1
    /\ chat_pc \in {"await", "yield_text", "yield_complete", "yield_error", "done"}
           => chat_calls = 1
    /\ raised # <<>> =>
           /\ calls = 1
           /\ ErrorIndexes(events) = {Len(events)}
           /\ TerminalIndexes(events) = {Len(events)}
    /\ chat_raised # <<>> =>
           /\ chat_calls = 1
           /\ ErrorIndexes(chat_events) = {Len(chat_events)}
           /\ TerminalIndexes(chat_events) = {Len(chat_events)}

\* The upstream raised after two chunks had produced events, and the
\* generator has returned.
C11_Witness ==
    /\ pc = "done"
    /\ raised # <<>>
    /\ calls = 1
    /\ Len(sent_chunks) = 2
    /\ Len(events) > 2

\* The events a call yields when it runs alone to its end.
RECURSIVE RunAlone(_, _)
RunAlone(schema, s) ==
    IF s.pc = "done" THEN s.events ELSE RunAlone(schema, Resume(schema, s))

IsPrefix(a, b) == Len(a) <= Len(b) /\ Slice(b, 1, Len(a)) = a

\* C13: whatever the interleaving of the resumptions of two calls of
\* generate(), each call has yielded a prefix of the events it yields when it
\* runs alone on its own upstream response, and all of them once it has
\* returned.
C13_SessionsAreIsolated ==
    \A i \in DOMAIN sessions :
        LET alone == RunAlone(ShortSchema, NewSession(sessions[i].input))
        IN /\ IsPrefix(sessions[i].events, alone)
           /\ sessions[i].pc = "done" => sessions[i].events = alone

\* Two calls with different responses have both returned, and the first
\* call was resumed for the last time while the second had already yielded
\* events.
C13_Witness ==
    /\ DOMAIN sessions = 1..2
    /\ sessions[1].pc = "done"
    /\ sessions[2].pc = "done"
    /\ sessions[1].input.chunks = <<Slice(DocAll, 1, 7), Slice(DocAll, 8, Len(DocAll))>>
    /\ sessions[2].input.chunks = <<Slice(DocArray, 1, 9), Slice(DocArray, 10, Len(DocArray))>>
    /\ Len(sessions[1].events) >= 3
    /\ Len(sessions[2].events) >= 2

\* C12: when the consumer closes a generator that is suspended, the step
\* that closes it and every later step emit no event (no complete event and
\* no error event), and the generator does not run again.
C12_CancelEmitsNothing ==
    [][/\ cancelled' => (events' = events /\ pc' = "closed")
       /\ chat_cancelled' => (chat_events' = chat_events /\ chat_pc' = "closed")]_vars

\* A generator closed while suspended after it had yielded a non-terminal
\* event and before any terminal event.
C12_Witness ==
    /\ cancelled
    /\ pc = "closed"
    /\ events # <<>>
    /\ TerminalIndexes(events) = {}
    /\ upstream # <<>>

\* C14: under a schema that declares no field the generator yields no
\* partial, boolean or array event, whatever the upstream delivers: at most
\* one event is ever emitted, it is terminal, and exactly one has been emitted
\* when the generator returns.
C14_EmptySchemaOnlyTerminal ==
    response_schema = EmptySchema =>
        /\ Len(events) <= 1
        /\ \A i \in 1..Len(events) : IsTerminal(events[i])
        /\ pc \in {"yield_complete", "yield_error", "done"} => Len(events) = 1
        /\ pc \in {"start", "await"} => events = <<>>
        /\ pc \notin {"yield_partial", "yield_boolean", "yield_array"}

\* A response that holds a string field, delivered in three non-empty
\* chunks under the empty schema, has been streamed to its completion event.
C14_Witness ==
    /\ response_schema = EmptySchema
    /\ pc = "done"
    /\ Concat(sent_chunks) = DocString
    /\ \A i \in 1..Len(sent_chunks) : sent_chunks[i] # <<>>
    /\ Len(events) = 1
    /\ events[1].type = "complete"

\* What a client reads from one record: the text between the prefix and the
\* blank line, parsed as JSON.
FrameBody(frame) == Slice(frame, Len(DataPrefix) + 1, Len(frame) - 2)

WellFramed(frame, types) ==
    LET parsed == JsonLoads(FrameBody(frame))
        keys == DOMAIN parsed.val.val
        terminal == {JStr(TypeText("complete")), JStr(TypeText("error"))}
    IN /\ Len(frame) >= Len(DataPrefix) + 2
       /\ Slice(frame, 1, Len(DataPrefix)) = DataPrefix
       /\ Slice(frame, Len(frame) - 1, Len(frame)) = <<Newline, Newline>>
       /\ \A i \in 1..(Len(frame) - 2) : frame[i] \notin {Newline, "\r"}
       /\ parsed.ok
       /\ parsed.val.kind = "object"
       /\ {TypeKey, ContentKey, IsCompleteKey} \subseteq keys
       /\ keys \subseteq {TypeKey, FieldKey, ContentKey, IsCompleteKey}
       /\ parsed.val.val[TypeKey] \in {JStr(TypeText(t)) : t \in types}
       /\ parsed.val.val[IsCompleteKey] = JBool(parsed.val.val[TypeKey] \in terminal)

-----------------------------------------------------------------------------
(* Properties of the views *)

\* The step is the handling of a POST request by the view.
Handles(view) ==
    /\ handled' = handled + 1
    /\ request'.view = view
    /\ request'.method = "POST"

\* The body carries no value, or an empty one, for the key.
Lacks(data, key) == Falsy(PostGet(data, key, None))

\* C16: an analysis POST without a non-empty problem or without a non-empty
\* attempt is answered with status 400, and no Analysis row is created,
\* last_analysis_id is not set in the session and no upstream stream is
\* opened for it.
C16_AnalysisPostRejectedWith400 ==
    [][(/\ Handles("AnalyzeSolutionView")
        /\ Lacks(request'.data, "problem") \/ Lacks(request'.data, "attempt"))
       => /\ response'.status = 400
          /\ Analysis' = Analysis
          /\ session' = session
          /\ streams_opened' = streams_opened
          /\ response'.stream = "none"]_vars

\* C17: a chat POST without a message, or without an analysis_id, is
\* answered with status 400, no Chat row is created and no upstream stream
\* is opened for it.
C17_ChatPostRejectedWith400 ==
    [][(/\ Handles("ChatView")
        /\ Lacks(request'.data, "message") \/ Lacks(request'.data, "analysis_id"))
       => /\ response'.status = 400
          /\ Chat' = Chat
          /\ streams_opened' = streams_opened
          /\ response'.stream = "none"]_vars

\* C18: a gym submission without gym_sesh_id or without gym_question_id is
\* answered with status 404, and no gym session or question row is read or
\* changed.
C18_GymPostWithoutIdsRejectedWith404 ==
    [][(/\ Handles("GymSolutionView")
        /\ Lacks(request'.data, "gym_sesh_id") \/ Lacks(request'.data, "gym_question_id"))
       => /\ response'.status = 404
          /\ response'.reads = {}
          /\ GymSesh' = GymSesh
          /\ GymQuestions' = GymQuestions]_vars

\* The request names the session of question q, a question id and the
\* number of q (1 when the body has none), and comes from the browser
\* session that owns the gym session.
Targets(req, q) ==
    /\ PostGet(req.data, "gym_sesh_id", "") = GymQuestions[q].gym_sesh
    /\ ~Lacks(req.data, "gym_question_id")
    /\ PostGet(req.data, "question_number", "1") \in DOMAIN IntOf
    /\ IntOf[PostGet(req.data, "question_number", "1")] = GymQuestions[q].question_number
    /\ req.user = GymSesh[GymQuestions[q].gym_sesh].user
    /\ req.session_key = GymSesh[GymQuestions[q].gym_sesh].session_key

\* C19: a gym submission to a question that is already answered is answered
\* with status 400; the attempt, status, answered_at and is_answered of the
\* question stay as they were and no upstream stream is opened.
C19_AnsweredQuestionRejectedWith400 ==
    [][\A q \in DOMAIN GymQuestions :
          (Handles("GymSolutionView") /\ Targets(request', q)
               /\ GymQuestions[q].is_answered)
          => /\ response'.status = 400
             /\ GymQuestions'[q] = GymQuestions[q]
             /\ streams_opened' = streams_opened
             /\ response'.stream = "none"]_vars

C21_NoAttemptRejectedWith400 ==
    [][\A q \in DOMAIN GymQuestions :
          (Handles("GymSolutionView") /\ Targets(request', q)
               /\ ~GymQuestions[q].is_answered
               /\ Lacks(request'.data, "attempt"))
          => response'.status = 400]_vars

\* The step is the handling of a POST request by one of the transcribe views.
HandlesTranscribe ==
    \/ Handles("TranscribeGymImageView")
    \/ Handles("TranscribeAnalysisImageView")

\* C22: with no image, transcribe does not call the model; it returns a
\* non-empty fallback text unchanged, and for an empty one it raises
\* ValueError, which the transcribe views answer with status 400, creating no
\* transcript row and setting no transcript id in the session.
C22_NoImageNoModelCall ==
    [][(HandlesTranscribe /\ request'.FILES.data_image = None)
       => LET text == PostGet(request'.data, "data_text", "")
          IN /\ model_calls' = model_calls
             /\ text # "" => /\ response'.status = 200
                             /\ response'.data = text
             /\ text = "" => /\ response'.error = "ValueError"
                             /\ response'.status = 400
                             /\ AnalysisTranscript' = AnalysisTranscript
                             /\ GymTranscript' = GymTranscript
                             /\ session' = session]_vars

\* A transcribe request with neither image nor text has been answered with
\* status 400, after one with a text only has been answered with that text.
C22_Witness ==
    /\ handled = 2
    /\ request.view = "TranscribeGymImageView"
    /\ request.FILES.data_image = None
    /\ PostGet(request.data, "data_text", "") = ""
    /\ response.error = "ValueError"
    /\ response.status = 400
    /\ Len(AnalysisTranscript) = 1
    /\ AnalysisTranscript[1].image_obj = None
    /\ AnalysisTranscript[1].transcript = "t"
    /\ model_calls = 0

\* What a streamer can have emitted when it is exhausted: events that end
\* with its terminal event.
StreamedToEnd ==
    {<<CompletionData(<<>>)>>,
     <<Event("partial", <<"t">>, JStr(<<"a">>), FALSE), CompletionData(<<>>)>>,
     <<Event("partial", <<"t">>, JStr(<<"a">>), FALSE), ErrorData(<<"r">>)>>}

PassesLookup(req, s) ==
    /\ PostGet(req.data, "gym_sesh_id", "") = s
    /\ ~Lacks(req.data, "gym_question_id")
    /\ PostGet(req.data, "question_number", "1") \in DOMAIN IntOf
    /\ req.user = GymSesh[s].user
    /\ req.session_key = GymSesh[s].session_key

\* C24: the submission that passes the lookup of a PENDING gym session makes
\* it ACTIVE and sets its started_at; a submission to a session that is not
\* PENDING changes neither; no step writes a started_at that is set.
C24_PendingBecomesActiveOnce ==
    [][\A s \in DOMAIN GymSesh :
          /\ (Handles("GymSolutionView") /\ PassesLookup(request', s))
             => IF GymSesh[s].status = "PENDING"
                THEN /\ GymSesh'[s].status = "ACTIVE"
                     /\ GymSesh'[s].started_at # <<>>
                ELSE /\ GymSesh'[s].status = GymSesh[s].status
                     /\ GymSesh'[s].started_at = GymSesh[s].started_at
          /\ GymSesh[s].started_at # <<>>
             => GymSesh'[s].started_at = GymSesh[s].started_at]_vars

-----------------------------------------------------------------------------
(* Properties of the patterns of StreamGenerator.generate *)

\* The index after "name" : " of the leftmost match of a string field's
\* pattern: where the value of the field starts.
StringValueStart(text, name) ==
    KeyColonEnd(text,
                SetMin({i \in 1..Len(text) :
                           /\ KeyColonEnd(text, i, name) # 0
                           /\ CharAt(text, KeyColonEnd(text, i, name)) = Quote}),
                name) + 1

\* C26: the capture of a string field runs through escaped quotes up to the
\* first unescaped quote (or the end of the buffer), and the text of a partial
\* event is that capture, unescaped (backslash-quote to quote, backslash-n to
\* newline, backslash-t to tab), from the cursor of the field on.
C26_CaptureRunsToUnescapedQuote ==
    \A name \in DOMAIN field_positions :
        StringSearch(accumulated_text, name).found =>
            LET start == StringValueStart(accumulated_text, name)
                stop == LiteralEnd(accumulated_text, start)
                capture == Slice(accumulated_text, start,
                                 IF stop = 0 THEN Len(accumulated_text) ELSE stop - 1)
                value == UnescapeValue(capture)
            IN /\ StringSearch(accumulated_text, name).group = capture
               /\ (pc = "yield_partial"
                      /\ FieldNames(response_schema, "string")[cur] = name)
                  => Last(events).content =
                        JStr(Slice(value, field_positions[name] + 1, Len(value)))

\* C27: the items of an array event are the item literals of the capture,
\* each unescaped as the value of a string field is (backslash-quote to
\* quote, backslash-n to newline, backslash-t to tab).
C27_ItemsUnescapedAsStringFields ==
    pc = "yield_array" =>
        LET af == ArrayFieldName(response_schema)
            items == FindAllItems(ArraySearch(accumulated_text, af).group, 1)
        IN Last(events).content =
              JArray([i \in 1..Len(items) |-> JStr(UnescapeValue(items[i]))])

\* The index after "name" : [ of the leftmost match of the array pattern:
\* where the content of the array starts.
ArrayContentStart(text, name) ==
    KeyColonEnd(text,
                SetMin({i \in 1..Len(text) :
                           /\ KeyColonEnd(text, i, name) # 0
                           /\ CharAt(text, KeyColonEnd(text, i, name)) = "["}),
                name) + 1

\* The index of the bracket that closes an array of strings whose content
\* starts at index i, one past the end of the text when it has not arrived:
\* a bracket inside an item literal closes nothing.
RECURSIVE ClosingBracket(_, _)
ClosingBracket(text, i) ==
    IF i > Len(text) THEN Len(text) + 1
    ELSE IF text[i] = "]" THEN i
    ELSE IF text[i] = Quote
    THEN IF LiteralEnd(text, i + 1) = 0 THEN Len(text) + 1
         ELSE ClosingBracket(text, LiteralEnd(text, i + 1) + 1)
    ELSE ClosingBracket(text, i + 1)

\* C28: the capture of the array field runs from the opening bracket to the
\* bracket that closes the array, or to the end of the buffer while that
\* bracket has not arrived, also when an item holds a closing bracket.
C28_CaptureRunsToClosingBracket ==
    LET af == ArrayFieldName(response_schema)
        m == ArraySearch(accumulated_text, af)
    IN (af # <<>> /\ m.found) =>
          LET start == ArrayContentStart(accumulated_text, af)
          IN m.group = Slice(accumulated_text, start,
                             ClosingBracket(accumulated_text, start) - 1)

\* C29: every array event carries the first array field of the schema, and
\* no event of any type carries another array field of the schema.
C29_OnlyFirstArrayFieldEmits ==
    LET arrays == FieldNames(response_schema, "array")
    IN \A i \in 1..Len(events) :
          /\ events[i].type = "array" => arrays # <<>> /\ events[i].field = arrays[1]
          /\ \A k \in 2..Len(arrays) : events[i].field # arrays[k]

\* Under the schema with the array fields g and h, the document that holds
\* both, h first, has been streamed to its end: the array of h has been in the
\* buffer since before that of g, and there is an array event for g.
C29_Witness ==
    /\ response_schema = TwoArraySchema
    /\ pc = "done"
    /\ accumulated_text = DocTwoArrays
    /\ Len(sent_chunks) = MaxChunks
    /\ ArraySearch(sent_chunks[1], <<"h">>).found
    /\ ~ArraySearch(sent_chunks[1], <<"g">>).found
    /\ \E i \in 1..Len(events) :
          events[i] = Event("array", <<"g">>, JArray(<<JStr(<<"a">>)>>), FALSE)

\* The place of a non-terminal event in the order of one pass of the loop
\* body: the string fields in schema order, then the boolean fields in schema
\* order, then the array field.
Rank(schema, e) ==
    LET sf == FieldNames(schema, "string")
        bf == FieldNames(schema, "boolean")
    IN CASE e.type = "partial" -> CHOOSE i \in 1..Len(sf) : sf[i] = e.field
         [] e.type = "boolean" -> Len(sf) + (CHOOSE i \in 1..Len(bf) : bf[i] = e.field)
         [] OTHER -> Len(sf) + Len(bf) + 1

\* The events emitted so far keep their order: within one delta they follow
\* the order of the loop body.
InProducerOrder ==
    /\ IsPrefix(events, events')
    /\ Len(events') <= Len(events) + 1
    /\ (/\ sent_chunks' = sent_chunks
        /\ Len(events') = Len(events) + 1
        /\ ~IsTerminal(Last(events'))
        /\ pc \in {"yield_partial", "yield_boolean", "yield_array"})
       => Rank(response_schema, Last(events)) < Rank(response_schema, Last(events'))

\* The partial events of every string field carry consecutive, non-empty
\* slices of the field's value, from its start on.
PartialsAreSlices(evs, text, names) ==
    /\ \A i \in 1..Len(evs) : evs[i].type = "partial" => evs[i].content.val # <<>>
    /\ \A name \in names : IsPrefix(PartialText(evs, name), CurrentValue(text, name))

\* C30: the events of one delta precede those of the next; within a delta
\* the partial events come first, in schema order, then the boolean events,
\* in schema order, then at most one array event; the partial contents of a
\* string field are consecutive, non-empty slices of the field's value.
C30_ProducerOrderAndSlices ==
    [][/\ InProducerOrder
       /\ PartialsAreSlices(events', accumulated_text', DOMAIN field_positions')]_vars

-----------------------------------------------------------------------------
(* Properties of the buffer, the cursors and the flags *)

\* The buffer is the concatenation of the non-empty deltas received; the
\* cursor of every string field is the total length of the partial contents
\* in evs for the field and does not exceed the length of the field's
\* unescaped capture.
BufferAndCursors(text, chunks, positions, evs) ==
    /\ text = Concat(NonEmptyChunks(chunks))
    /\ \A name \in DOMAIN positions :
          /\ positions[name] = Len(PartialText(evs, name))
          /\ positions[name] <= Len(CurrentValue(text, name))

\* The buffer only grows by appending and no cursor decreases.
GrowOnly ==
    /\ IsPrefix(accumulated_text, accumulated_text')
    /\ \A name \in DOMAIN field_positions :
          /\ name \in DOMAIN field_positions'
          /\ field_positions[name] <= field_positions'[name]

\* C31 as stated: in every state the buffer is the concatenation of the
\* non-empty deltas received so far and only grows by appending; every
\* cursor never decreases, equals the total length of the partial contents
\* emitted so far for its field and does not exceed the length of the field's
\* unescaped capture.
C31_CursorCountsEmitted ==
    /\ BufferAndCursors(accumulated_text, sent_chunks, field_positions, events)
    /\ [][/\ GrowOnly
          /\ BufferAndCursors(accumulated_text', sent_chunks', field_positions',
                              events')]_vars

\* The events the cursors account for: all of them, except the partial
\* event at whose yield the generator is suspended.
Counted(at, evs) == IF at = "yield_partial" THEN Front(evs) ELSE evs

\* C31, amended: as stated, except that while the generator is suspended at
\* the yield of a partial event the cursor of that field does not count this
\* event yet; it does once the generator is resumed.
C31_CursorCountsEmittedOnceResumed ==
    /\ BufferAndCursors(accumulated_text, sent_chunks, field_positions,
                        Counted(pc, events))
    /\ [][/\ GrowOnly
          /\ BufferAndCursors(accumulated_text', sent_chunks', field_positions',
                              Counted(pc', events'))]_vars

\* A second partial event of a field is being yielded: the cursor counts the
\* earlier events of the field, not yet this one.
C31_Witness ==
    /\ pc = "yield_partial"
    /\ \E name \in DOMAIN field_positions :
          /\ field_positions[name] > 0
          /\ Last(events).field = name
          /\ Len(PartialText(events, name)) > field_positions[name]
          /\ Len(PartialText(Front(events), name)) = field_positions[name]

\* The text holds the key of the field, a colon and a complete literal.
HoldsLiteral(text, name) ==
    \E i \in 1..Len(text) :
       /\ KeyColonEnd(text, i, name) # 0
       /\ \E lit \in {TrueLit, FalseLit} :
             StartsWithAt(text, KeyColonEnd(text, i, name), lit)

BooleanEmitted(evs, name) ==
    \E i \in 1..Len(evs) : evs[i].type = "boolean" /\ evs[i].field = name

\* The loop body has run to its end for the last delta received.
DeltaProcessed == pc \in {"await", "yield_complete", "yield_error", "done"}

\* C32: the boolean event of a field is emitted while the first delta that
\* completes key, colon and literal in the buffer is processed, and not
\* earlier: no event while the buffer lacks the complete literal, and the
\* event is out when the processing of a delta ends with the literal in the
\* buffer.
C32_BooleanAtFirstCompleteLiteral ==
    \A name \in DOMAIN boolean_fields_sent :
       /\ BooleanEmitted(events, name) => HoldsLiteral(accumulated_text, name)
       /\ DeltaProcessed /\ HoldsLiteral(accumulated_text, name)
             => BooleanEmitted(events, name)

\* The literal arrived cut after tru: the delta that ended with the prefix
\* emitted nothing, the next one emitted the event.
C32_Witness ==
    \E name \in DOMAIN boolean_fields_sent :
       /\ BooleanEmitted(events, name)
       /\ \E k \in 1..(Len(sent_chunks) - 1) :
             LET before == Concat(SubSeq(sent_chunks, 1, k))
             IN /\ Len(before) >= 3
                /\ SubSeq(before, Len(before) - 2, Len(before)) = <<"t", "r", "u">>
                /\ ~HoldsLiteral(before, name)
                /\ ~BooleanEmitted(SubSeq(events, 1, Len(events) - 1), name)

-----------------------------------------------------------------------------
(* Properties of the gym views *)

Complete(data) == ~Lacks(data, "problem") /\ ~Lacks(data, "attempt")

Written(table, obj) == [table EXCEPT ![obj.id] = obj]

\* The session object a submission holds from its lookup on: the row as
\* fetched, ACTIVE once the handler has started it.
Fetched(row, now) ==
    IF row.status = "PENDING"
    THEN [row EXCEPT !.started_at = <<now>>, !.status = "ACTIVE"]
    ELSE row

\* The session is one of the client that sends the next request.
Owns(s) == user = GymSesh[s].user /\ session_key = GymSesh[s].session_key

Submission(s, q) ==
    Request("GymSolutionView", "form",
            [gym_sesh_id |-> s, gym_question_id |-> q,
             question_number |-> CHOOSE t \in DOMAIN IntOf :
                                    IntOf[t] = GymQuestions[q].question_number,
             problem |-> "p", attempt |-> "a"])

Correct(is_correct) == IF is_correct THEN 1 ELSE 0

-----------------------------------------------------------------------------
(* Properties of stream_with_db_save of ChatView.post *)

ModelRows == {i \in 1..Len(Chat) : Chat[i].role = "model"}

\* The events of the generator that the wrapper has forwarded, by type.
ForwardedOf(type) == {i \in 1..Len(forwarded) : chat_events[i].type = type}

\* The concatenation of the texts forwarded.
ForwardedText ==
    Concat([i \in 1..Len(forwarded) |->
               IF chat_events[i].type = "text" THEN chat_events[i].content.val
               ELSE <<>>])

\* The user's message is stored before the upstream is called, the client
\* gets the generator's chunks as they are, there is at most one MODEL row,
\* its content is the concatenation of the texts forwarded, and there is none
\* when an error event was forwarded.
UserFirstModelOnce ==
    /\ chat_calls > 0
          => /\ Len(Chat) >= 1
             /\ Chat[1].role = "user"
             /\ Chat[1].content = PostGet(request.data, "message", None)
    /\ \A i \in 1..Len(forwarded) : forwarded[i] = Frame(chat_events[i])
    /\ Cardinality(ModelRows) <= 1
    /\ \A i \in ModelRows : Chat[i].content = ForwardedText
    /\ ForwardedOf("error") # {} => ModelRows = {}

\* C37 as stated: the USER row is stored before the upstream stream is
\* opened; when the response has ended there is exactly one MODEL row if the
\* complete event was forwarded and none otherwise; its content is the
\* concatenation of the text events forwarded; none after an error event.
C37_ModelRowIffCompleteForwarded ==
    /\ UserFirstModelOnce
    /\ ModelRows # {} => ForwardedOf("complete") # {}
    /\ wrap_pc \in {"done", "closed"}
          => (ModelRows # {} <=> ForwardedOf("complete") # {})

\* The wrapper has been resumed after the complete event it forwarded.
ResumedAfterComplete ==
    /\ ForwardedOf("complete") # {}
    /\ ~(/\ wrap_pc \in {"yield", "closed"}
         /\ chat_events[Len(forwarded)].type = "complete")

\* C37, amended: as stated, but the MODEL row is there exactly when the
\* wrapper was resumed after forwarding the complete event and the save did
\* not raise.
C37_ModelRowIffCompleteProcessed ==
    /\ UserFirstModelOnce
    /\ ModelRows # {} <=> (ResumedAfterComplete /\ ~save_raised)

\* A reply of two texts was forwarded and stored after the user's message.
C37_Witness ==
    /\ wrap_pc = "done"
    /\ Cardinality(ForwardedOf("text")) = 2
    /\ Len(Chat) = 2
    /\ Chat[1].role = "user"
    /\ Chat[2].role = "model"
    /\ Chat[2].content = <<"a", "b">>

-----------------------------------------------------------------------------
(* Properties of accumulated_result *)

Frames(evs) == [i \in 1..Len(evs) |-> Frame(evs[i])]

\* Responses of the analysis streamer: the parsed object after other values,
\* the raw text, an error, and an object that lacks fields.
AnalysisStreams ==
    LET a == Event("partial", Title, JStr(<<"a">>), FALSE)
        b == Event("partial", Title, JStr(<<"b">>), FALSE)
        x == Event("array", Tags, JArray(<<JStr(<<"x">>)>>), FALSE)
        object == (Title :> JStr(<<"c">>)) @@ (Tags :> JArray(<<JStr(<<"y">>)>>))
                  @@ (Praise :> JStr(<<>>)) @@ (Diagnosis :> JStr(<<"d">>))
                  @@ (Explanation :> JStr(<<>>)) @@ (PracticeProblem :> JStr(<<"q">>))
    IN {<<a, x, Event("complete", FieldAll, JObject(object), TRUE)>>,
        <<a, b, x, Event("complete", FieldAll, JStr(<<"{", "a">>), TRUE)>>,
        <<a, b, ErrorData(<<"r">>)>>,
        <<a, Event("complete", FieldAll, JObject((Tags :> JArray(<<>>))), TRUE)>>}

GymStreams ==
    LET a == Event("partial", Feedback, JStr(<<"a">>), FALSE)
        b == Event("partial", Feedback, JStr(<<"b">>), FALSE)
        t == Event("boolean", IsCorrect, JBool(TRUE), FALSE)
        object == (IsCorrect :> JBool(FALSE)) @@ (Feedback :> JStr(<<"c">>))
                  @@ (Solution :> JStr(<<"s">>)) @@ (NextQuestion :> JStr(<<"q">>))
    IN {<<t, a, Event("complete", FieldAll, JObject(object), TRUE)>>,
        <<t, a, b, Event("complete", FieldAll, JStr(<<"{", "a">>), TRUE)>>,
        <<a, b, t, ErrorData(<<"r">>)>>,
        <<a, ErrorData(<<"r">>)>>}

\* The value of a field as the events before the terminal one give it: the
\* content of the last array or boolean event of the field, else for a
\* string field the concatenation of its partial contents, else the value
\* the wrapper starts with.
FromEvents(evs, k, initial, defaults) ==
    LET assigned == {i \in 1..Len(evs) :
                        evs[i].type \in {"array", "boolean"} /\ evs[i].field = k}
    IN IF assigned # {}
       THEN evs[CHOOSE i \in assigned : \A j \in assigned : j <= i].content
       ELSE IF defaults[k].kind = "str" THEN JStr(PartialText(evs, k))
       ELSE Get(initial, k, defaults[k])

\* With a complete event that carries an object the stored value of a field
\* of the object is the object's; otherwise it is the value the events
\* before gave it.
StoresAsStreamed(streamed, initial, defaults, branches) ==
    LET saved == Saved(Accumulate(Frames(streamed), initial, branches), defaults)
        last == Last(streamed)
    IN \A k \in DOMAIN defaults :
          IF /\ last.type = "complete"
             /\ last.content.kind = "object"
             /\ k \in DOMAIN last.content.val
          THEN saved[k] = last.content.val[k]
          ELSE saved[k] = FromEvents(Front(streamed), k, initial, defaults)

====
